---- MODULE Spec2Model ----
(***************************************************************************)
(* img-to-pdf: a directory tree of images becomes one PDF per directory.   *)
(* The model covers the converter class (index.ts: getImageFiles,          *)
(* scanDirectories, compressImages, calculateOptimalLayout, createPDF,     *)
(* run), the presets of config.ts and the configuration pipeline of        *)
(* cli.ts (loadFromEnv, mergeConfigs, validateConfig, main).               *)
(*                                                                         *)
(* JavaScript numbers are IEEE-754 binary64.  The layout arithmetic is     *)
(* modelled bit for bit: a number is a record [sg, m, e] of value          *)
(* sg * m * 2^e, whose significand m is a natural number kept as a         *)
(* little-endian sequence of 15-bit limbs (TLC's integers are 32 bits      *)
(* wide, a significand is 53).  Every operation computes the exact result  *)
(* and rounds it to 53 bits, ties to even, as the hardware does.           *)
(***************************************************************************)
EXTENDS Integers, Sequences, FiniteSets, TLC

----------------------------------------------------------------------------
(* Natural numbers of any size: little-endian limbs, no leading zero limb. *)

\* The element of a singleton set.  The({F(v) : v \in {e}}) is F(e) with e
\* evaluated once, where LET v == e IN F(v) evaluates e at every use of v.
The(S) == CHOOSE v \in S : TRUE

LimbBits == 5 * 3
Base == 2 ^ LimbBits
SigBits == 52 + 1

Limb(a, i) == IF i <= Len(a) THEN a[i] ELSE 0

RECURSIVE BNorm(_)
BNorm(a) == IF a = <<>> THEN a
            ELSE IF a[Len(a)] = 0 THEN BNorm(SubSeq(a, 1, Len(a) - 1))
            ELSE a

RECURSIVE BFromNat(_)
BFromNat(n) == IF n = 0 THEN <<>> ELSE <<n % Base>> \o BFromNat(n \div Base)

RECURSIVE BCmpAt(_, _, _)
BCmpAt(a, b, i) == IF i = 0 THEN 0
                   ELSE IF a[i] < b[i] THEN -1
                   ELSE IF a[i] > b[i] THEN 1
                   ELSE BCmpAt(a, b, i - 1)

\* -1, 0, 1 as a < b, a = b, a > b
BCmp(a, b) == IF Len(a) < Len(b) THEN -1
              ELSE IF Len(a) > Len(b) THEN 1
              ELSE BCmpAt(a, b, Len(a))

RECURSIVE BAddAt(_, _, _, _)
BAddAt(a, b, i, c) ==
    IF i > Len(a) /\ i > Len(b) THEN (IF c = 0 THEN <<>> ELSE <<c>>)
    ELSE LET s == Limb(a, i) + Limb(b, i) + c
         IN  <<s % Base>> \o BAddAt(a, b, i + 1, s \div Base)

BAdd(a, b) == BAddAt(a, b, 1, 0)

RECURSIVE BSubAt(_, _, _, _)
BSubAt(a, b, i, c) ==
    IF i > Len(a) THEN <<>>
    ELSE LET s == a[i] - Limb(b, i) - c
         IN  IF s < 0 THEN <<s + Base>> \o BSubAt(a, b, i + 1, 1)
             ELSE <<s>> \o BSubAt(a, b, i + 1, 0)

\* a - b for a >= b
BSub(a, b) == BNorm(BSubAt(a, b, 1, 0))

RECURSIVE BMulSmallAt(_, _, _, _)
BMulSmallAt(a, k, i, c) ==
    IF i > Len(a) THEN (IF c = 0 THEN <<>> ELSE <<c>>)
    ELSE LET s == a[i] * k + c
         IN  <<s % Base>> \o BMulSmallAt(a, k, i + 1, s \div Base)

\* a * k for 0 <= k < Base
BMulSmall(a, k) == IF k = 0 THEN <<>> ELSE BMulSmallAt(a, k, 1, 0)

Zeros(n) == [i \in 1..n |-> 0]

RECURSIVE BMulAt(_, _, _)
BMulAt(a, b, i) ==
    IF i > Len(b) THEN <<>>
    ELSE BAdd(IF b[i] = 0 THEN <<>> ELSE Zeros(i - 1) \o BMulSmall(a, b[i]),
              BMulAt(a, b, i + 1))

BMul(a, b) == IF a = <<>> \/ b = <<>> THEN <<>> ELSE BMulAt(a, b, 1)

RECURSIVE BDivSmallAt(_, _, _, _)
BDivSmallAt(a, k, i, r) ==
    IF i = 0 THEN [q |-> <<>>, r |-> r]
    ELSE LET cur == r * Base + a[i]
         IN  The({[q |-> rest.q \o <<cur \div k>>, r |-> rest.r]
                    : rest \in {BDivSmallAt(a, k, i - 1, cur % k)}})

\* quotient and remainder of a by k, 0 < k <= Base
BDivSmall(a, k) == The({[q |-> BNorm(d.q), r |-> d.r]
                          : d \in {BDivSmallAt(a, k, Len(a), 0)}})

RECURSIVE BitLenSmall(_)
BitLenSmall(x) == IF x = 0 THEN 0 ELSE 1 + BitLenSmall(x \div 2)

BBitLen(a) == IF a = <<>> THEN 0
              ELSE LimbBits * (Len(a) - 1) + BitLenSmall(a[Len(a)])

\* a * 2^n
BShl(a, n) == IF a = <<>> THEN a
              ELSE The({Zeros(k \div LimbBits) \o BMulSmall(a, 2 ^ (k % LimbBits))
                          : k \in {n}})

\* a \div 2^n, and whether a bit was shifted out
BShr(a, n) ==
    LET drop == n \div LimbBits
        kept == IF drop >= Len(a) THEN <<>> ELSE SubSeq(a, drop + 1, Len(a))
        lost == \E i \in 1..Len(a) : i <= drop /\ a[i] # 0
    IN  The({[q |-> d.q, st |-> lost \/ d.r # 0]
               : d \in {BDivSmall(kept, 2 ^ (n % LimbBits))}})

BOdd(a) == a # <<>> /\ a[1] % 2 = 1

----------------------------------------------------------------------------
(* Dyadic rationals sg * m * 2^e (exact), and their rounding to binary64.  *)

DZero == [sg |-> 1, m |-> <<>>, e |-> 0]

DNeg(x) == IF x.m = <<>> THEN x ELSE [x EXCEPT !.sg = -x.sg]

DMinE(x, y) == IF x.e < y.e THEN x.e ELSE y.e

\* exact sum
DAdd(x, y) ==
    IF x.m = <<>> THEN y
    ELSE IF y.m = <<>> THEN x
    ELSE LET e == DMinE(x, y)
             Sum(mx, my, c) ==
                 IF x.sg = y.sg THEN [sg |-> x.sg, m |-> BAdd(mx, my), e |-> e]
                 ELSE IF c = 0 THEN DZero
                 ELSE IF c > 0 THEN [sg |-> x.sg, m |-> BSub(mx, my), e |-> e]
                 ELSE [sg |-> y.sg, m |-> BSub(my, mx), e |-> e]
         IN  The({The({Sum(mx, my, c) : c \in {BCmp(mx, my)}})
                    : mx \in {BShl(x.m, x.e - e)},
                      my \in {BShl(y.m, y.e - e)}})

DSub(x, y) == DAdd(x, DNeg(y))

\* exact product
DMul(x, y) ==
    IF x.m = <<>> \/ y.m = <<>> THEN DZero
    ELSE [sg |-> x.sg * y.sg, m |-> BMul(x.m, y.m), e |-> x.e + y.e]

\* -1, 0, 1 as x < y, x = y, x > y
DCmp(x, y) == The({IF d.m = <<>> THEN 0 ELSE d.sg : d \in {DSub(x, y)}})

DLe(x, y) == DCmp(x, y) <= 0
DLt(x, y) == DCmp(x, y) < 0
DEq(x, y) == DCmp(x, y) = 0

DAbs(x) == [x EXCEPT !.sg = 1]

DFromInt(n) == IF n = 0 THEN DZero
               ELSE IF n < 0 THEN [sg |-> -1, m |-> BFromNat(-n), e |-> 0]
               ELSE [sg |-> 1, m |-> BFromNat(n), e |-> 0]

\* The binary64 nearest to sg * (m + f) * 2^e, 0 <= f < 1, f > 0 iff st:
\* round to nearest, ties to even.  (The layout's values are far from the
\* subnormal and overflow ranges.)
Round(sg, m, e, st) ==
    LET Short(L) ==
            [sg |-> sg, m |-> BShl(m, SigBits - L), e |-> e - (SigBits - L)]
        Rounded(d, r) ==
            IF BBitLen(r) > SigBits
            THEN [sg |-> sg, m |-> BShr(r, 1).q, e |-> e + d + 1]
            ELSE [sg |-> sg, m |-> r, e |-> e + d]
        Up(s1, q) == BOdd(s1.q) /\ (s1.st \/ st \/ BOdd(q))
        Nearest(d, s1, q) ==
            The({Rounded(d, r)
                   : r \in {IF Up(s1, q) THEN BAdd(q, <<1>>) ELSE q}})
        Halved(d, s1) == The({Nearest(d, s1, q) : q \in {BShr(s1.q, 1).q}})
        Long(d) == The({Halved(d, s1) : s1 \in {BShr(m, d - 1)}})
    IN  IF m = <<>> THEN DZero
        ELSE The({IF L <= SigBits THEN Short(L)
                  ELSE The({Long(d) : d \in {L - SigBits}})
                    : L \in {BBitLen(m)}})

RoundD(x) == The({Round(v.sg, v.m, v.e, FALSE) : v \in {x}})

(* binary64 arithmetic: the exact result, rounded *)
Num(n) == RoundD(DFromInt(n))
FAdd(x, y) == The({RoundD(DAdd(a, b)) : a \in {x}, b \in {y}})
FSub(x, y) == The({RoundD(DSub(a, b)) : a \in {x}, b \in {y}})
FMul(x, y) == The({RoundD(DMul(a, b)) : a \in {x}, b \in {y}})

\* x / k for an integer k, 0 < k < Base: the quotient is taken to at least
\* SigBits + 2 bits, the remainder is the sticky bit.
FDivInt(x, k) ==
    LET sh == LimbBits + 2
        Quotient(a) ==
            IF a.m = <<>> THEN DZero
            ELSE The({Round(a.sg, d.q, a.e - sh, d.r # 0)
                        : d \in {BDivSmall(BShl(a.m, sh), k)}})
    IN  The({Quotient(a) : a \in {x}})

\* a decimal literal n/den of the source, e.g. 595.28 = Dec(59528, 100)
Dec(n, den) == FDivInt(Num(n), den)

FMin(x, y) == The({IF DLt(b, a) THEN b ELSE a : a \in {x}, b \in {y}})
FMax(x, y) == The({IF DLt(a, b) THEN b ELSE a : a \in {x}, b \in {y}})

\* a binary64 in millionths, truncated toward zero, as a plain integer
\* (for reading a result; defined for |x| < 2000)
Micro(x) ==
    LET s == DMul(DAbs(x), DFromInt(1000000))
        n == IF s.e >= 0 THEN BShl(s.m, s.e) ELSE BShr(s.m, -s.e).q
    IN  x.sg * (Limb(n, 1) + Base * Limb(n, 2) + Base * Base * Limb(n, 3))

----------------------------------------------------------------------------
(* config.ts: the presets.  A Config is a record; the keys kept are the   *)
(* ones the modelled code reads.                                          *)

SupportedFormats == {".jpg", ".jpeg", ".png", ".gif", ".bmp", ".webp"}

defaultConfig ==
    [sourceDir |-> "~/Downloads/img-to-pdf",
     outputDir |-> "~/Downloads",
     supportedFormats |-> SupportedFormats,
     pageSize |-> "A4",
     margin |-> 0,
     minimumMargin |-> 0,
     fillMode |-> "custom",
     customMargin |-> [top |-> 15, bottom |-> 15, left |-> 0, right |-> 0],
     preCompressImages |-> TRUE,
     autoRotate |-> TRUE,
     maxImageWidth |-> 1200,
     maxImageHeight |-> 1600,
     jpegQuality |-> 80]

musicSheetConfig ==
    [defaultConfig EXCEPT
        !.fillMode = "custom",
        !.customMargin = [top |-> 15, bottom |-> 15, left |-> 0, right |-> 0],
        !.preCompressImages = TRUE,
        !.autoRotate = TRUE,
        !.jpegQuality = 85]

highQualityConfig ==
    [defaultConfig EXCEPT
        !.fillMode = "fit",
        !.margin = 10,
        !.jpegQuality = 95,
        !.maxImageWidth = 2400,
        !.maxImageHeight = 3200,
        !.preCompressImages = FALSE]

compactConfig ==
    [defaultConfig EXCEPT
        !.fillMode = "custom",
        !.customMargin = [top |-> 5, bottom |-> 5, left |-> 0, right |-> 0],
        !.jpegQuality = 70,
        !.maxImageWidth = 800,
        !.maxImageHeight = 1200,
        !.preCompressImages = TRUE]

----------------------------------------------------------------------------
(* index.ts: the page-format table and calculateOptimalLayout.             *)

pageFormats ==
    [A4     |-> [width |-> Dec(59528, 100),  height |-> Dec(84189, 100)],
     A3     |-> [width |-> Dec(84189, 100),  height |-> Dec(119055, 100)],
     Letter |-> [width |-> Num(612),         height |-> Num(792)],
     Legal  |-> [width |-> Num(612),         height |-> Num(1008)]]

\* this.config.minimumMargin || 0
MinimumMarginOf(cfg) ==
    IF "minimumMargin" \in DOMAIN cfg THEN cfg.minimumMargin ELSE 0

\* this.config.customMargin || { top: 10, bottom: 10, left: 0, right: 0 }
CustomMarginOf(cfg) ==
    IF "customMargin" \in DOMAIN cfg THEN cfg.customMargin
    ELSE [top |-> 10, bottom |-> 10, left |-> 0, right |-> 0]

LayoutInfo(w, h, x, y, page, mode) ==
    [threw |-> FALSE, width |-> w, height |-> h, x |-> x, y |-> y,
     pageWidth |-> page.width, pageHeight |-> page.height, fillMode |-> mode]

LayoutCustom(cfg, page) ==
    LET customMargin == CustomMarginOf(cfg)
        pageWidth  == FSub(FSub(page.width, Num(customMargin.left)),
                           Num(customMargin.right))
        pageHeight == FSub(FSub(page.height, Num(customMargin.top)),
                           Num(customMargin.bottom))
    IN  LayoutInfo(pageWidth, pageHeight,
                   Num(customMargin.left), Num(customMargin.top),
                   page, cfg.fillMode)

LayoutStretch(cfg, page) ==
    LET margin     == MinimumMarginOf(cfg)
        pageWidth  == FSub(page.width, Num(margin * 2))
        pageHeight == FSub(page.height, Num(margin * 2))
    IN  LayoutInfo(pageWidth, pageHeight, Num(margin), Num(margin),
                   page, cfg.fillMode)

\* a crop that scales by the smaller factor (what fit does)
LayoutCropBySmallerScale(cfg, page, imgWidth, imgHeight) ==
    LET margin      == MinimumMarginOf(cfg)
        pageWidth   == FSub(page.width, Num(margin * 2))
        pageHeight  == FSub(page.height, Num(margin * 2))
        scale       == FMin(FDivInt(pageWidth, imgWidth),
                            FDivInt(pageHeight, imgHeight))
        finalWidth  == FMul(Num(imgWidth), scale)
        finalHeight == FMul(Num(imgHeight), scale)
        x == FAdd(Num(margin), FDivInt(FSub(pageWidth, finalWidth), 2))
        y == FAdd(Num(margin), FDivInt(FSub(pageHeight, finalHeight), 2))
    IN  LayoutInfo(finalWidth, finalHeight, x, y, page, cfg.fillMode)

\* a fit that scales by the larger factor (what crop does)
LayoutFitByLargerScale(cfg, page, imgWidth, imgHeight) ==
    LET margin      == MinimumMarginOf(cfg)
        pageWidth   == FSub(page.width, Num(margin * 2))
        pageHeight  == FSub(page.height, Num(margin * 2))
        scale       == FMax(FDivInt(pageWidth, imgWidth),
                            FDivInt(pageHeight, imgHeight))
        finalWidth  == FMul(Num(imgWidth), scale)
        finalHeight == FMul(Num(imgHeight), scale)
        x == FAdd(Num(margin), FDivInt(FSub(pageWidth, finalWidth), 2))
        y == FAdd(Num(margin), FDivInt(FSub(pageHeight, finalHeight), 2))
    IN  LayoutInfo(finalWidth, finalHeight, x, y, page, cfg.fillMode)

LayoutCrop(cfg, page, imgWidth, imgHeight) ==
    LET margin      == MinimumMarginOf(cfg)
        pageWidth   == FSub(page.width, Num(margin * 2))
        pageHeight  == FSub(page.height, Num(margin * 2))
        scaleWidth  == FDivInt(pageWidth, imgWidth)
        scaleHeight == FDivInt(pageHeight, imgHeight)
        scale       == FMax(scaleWidth, scaleHeight)
        finalWidth  == FMul(Num(imgWidth), scale)
        finalHeight == FMul(Num(imgHeight), scale)
        x == FAdd(Num(margin), FDivInt(FSub(pageWidth, finalWidth), 2))
        y == FAdd(Num(margin), FDivInt(FSub(pageHeight, finalHeight), 2))
    IN  LayoutInfo(finalWidth, finalHeight, x, y, page, cfg.fillMode)

LayoutFit(cfg, page, imgWidth, imgHeight) ==
    LET margin      == MinimumMarginOf(cfg)
        pageWidth   == FSub(page.width, Num(margin * 2))
        pageHeight  == FSub(page.height, Num(margin * 2))
        scaleW      == FDivInt(pageWidth, imgWidth)
        scaleH      == FDivInt(pageHeight, imgHeight)
        scaleMin    == FMin(scaleW, scaleH)
        finalWidth  == FMul(Num(imgWidth), scaleMin)
        finalHeight == FMul(Num(imgHeight), scaleMin)
        x == FAdd(Num(margin), FDivInt(FSub(pageWidth, finalWidth), 2))
        y == FAdd(Num(margin), FDivInt(FSub(pageHeight, finalHeight), 2))
    IN  LayoutInfo(finalWidth, finalHeight, x, y, page, cfg.fillMode)

\* the numbers that are no number, and the value of a property that is
\* not there
NaN == [nan |-> TRUE]

Undefined == [undefined |-> TRUE]

\* the property names every object inherits from Object.prototype: looked
\* up in the page-format table they give a function, or for __proto__ the
\* prototype itself, all of them truthy and without width and height
ObjectPrototypeKeys ==
    {"constructor", "__proto__", "hasOwnProperty", "isPrototypeOf",
     "propertyIsEnumerable", "toLocaleString", "toString", "valueOf",
     "__defineGetter__", "__defineSetter__", "__lookupGetter__",
     "__lookupSetter__"}

InheritedPage == [width |-> Undefined, height |-> Undefined]

\* the switch for a page whose width and height are undefined: every
\* difference, quotient, product and sum that involves them is NaN, and so
\* are Math.min and Math.max of two NaN; the offsets of custom and stretch
\* come from the margins alone
LayoutOfInheritedPage(cfg, page) ==
    CASE cfg.fillMode = "custom" ->
           LayoutInfo(NaN, NaN, Num(CustomMarginOf(cfg).left),
                      Num(CustomMarginOf(cfg).top), page, cfg.fillMode)
      [] cfg.fillMode = "stretch" ->
           LayoutInfo(NaN, NaN, Num(MinimumMarginOf(cfg)),
                      Num(MinimumMarginOf(cfg)), page, cfg.fillMode)
      [] OTHER ->
           LayoutInfo(NaN, NaN, NaN, NaN, page, cfg.fillMode)

\* imgWidth, imgHeight: pixel counts, 0 < n < Base.  A page format for
\* which the table has nothing, own or inherited, throws.
calculateOptimalLayout(cfg, imgWidth, imgHeight, pageFormat) ==
    IF pageFormat \in ObjectPrototypeKeys
    THEN LayoutOfInheritedPage(cfg, InheritedPage)
    ELSE IF pageFormat \notin DOMAIN pageFormats
    THEN [threw |-> TRUE, message |-> "unsupported page format"]
    ELSE LET Switch(page) ==
                 CASE cfg.fillMode = "custom"  -> LayoutCustom(cfg, page)
                   [] cfg.fillMode = "stretch" -> LayoutStretch(cfg, page)
                   [] cfg.fillMode = "crop"    -> LayoutCrop(cfg, page, imgWidth, imgHeight)
                   [] OTHER                    -> LayoutFit(cfg, page, imgWidth, imgHeight)
         IN  The({Switch(page) : page \in {pageFormats[pageFormat]}})

----------------------------------------------------------------------------
(* File names are sequences of one-character strings, so that extname,     *)
(* the /\d+/ match and the collation of getImageFiles can be computed.     *)

Digits == <<"0", "1", "2", "3", "4", "5", "6", "7", "8", "9">>

IsDigit(c) == \E d \in 1..Len(Digits) : Digits[d] = c

DigitVal(c) == (CHOOSE d \in 1..Len(Digits) : Digits[d] = c) - 1

\* the letters of the modelled names, in alphabetical order
Lowers == <<"a", "b", "c", "d", "e", "f", "g", "h", "i", "j", "k", "l", "m",
            "n", "o", "p", "q", "r", "s", "t", "u", "v", "w", "x", "y", "z">>
Uppers == <<"A", "B", "C", "D", "E", "F", "G", "H", "I", "J", "K", "L", "M",
            "N", "O", "P", "Q", "R", "S", "T", "U", "V", "W", "X", "Y", "Z">>

IsUpper(c) == \E i \in 1..Len(Uppers) : Uppers[i] = c

\* String.prototype.toLowerCase, one character
LowerChar(c) == IF IsUpper(c)
                THEN Lowers[CHOOSE i \in 1..Len(Uppers) : Uppers[i] = c]
                ELSE c

toLowerCase(s) == [i \in 1..Len(s) |-> LowerChar(s[i])]

RECURSIVE LastDot(_, _)
LastDot(s, i) == IF i = 0 THEN 0
                 ELSE IF s[i] = "." THEN i
                 ELSE LastDot(s, i - 1)

\* path.extname of a file name: from the last dot on; empty when there is
\* no dot or the only dot leads the name
extname(name) == LET d == LastDot(name, Len(name))
                 IN  IF d <= 1 THEN <<>> ELSE SubSeq(name, d, Len(name))

\* path.basename(name, ext): the name without the suffix ext
basename(name, ext) ==
    IF ext # <<>> /\ Len(name) > Len(ext)
       /\ SubSeq(name, Len(name) - Len(ext) + 1, Len(name)) = ext
    THEN SubSeq(name, 1, Len(name) - Len(ext))
    ELSE name

RECURSIVE FirstDigit(_, _)
FirstDigit(s, i) == IF i > Len(s) THEN 0
                    ELSE IF IsDigit(s[i]) THEN i
                    ELSE FirstDigit(s, i + 1)

RECURSIVE DigitRunEnd(_, _)
DigitRunEnd(s, i) == IF i < Len(s) /\ IsDigit(s[i + 1])
                     THEN DigitRunEnd(s, i + 1) ELSE i

RECURSIVE ParseDigits(_, _, _, _)
ParseDigits(s, i, j, acc) ==
    IF i > j THEN acc
    ELSE ParseDigits(s, i + 1, j, acc * 10 + DigitVal(s[i]))

\* parseInt(name.match(/\d+/)?.[0] || "0")
FirstInt(name) ==
    LET i == FirstDigit(name, 1)
    IN  IF i = 0 THEN 0 ELSE ParseDigits(name, i, DigitRunEnd(name, i), 0)

(* a.localeCompare(b, "zh-TW", {numeric: true}) on the modelled alphabet.  *)
(* Primary level: punctuation < digits < letters; a run of digits is one   *)
(* element ordered by its numeric value; case does not count.  Ties at the *)
(* primary level are broken by case, lower case first.                     *)
CharWeight(c) ==
    IF c = "_" THEN 1
    ELSE IF c = "." THEN 2
    ELSE 10 + (CHOOSE i \in 1..Len(Lowers) : Lowers[i] = LowerChar(c))

RECURSIVE CollationKey(_, _)
CollationKey(s, i) ==
    IF i > Len(s) THEN <<>>
    ELSE IF IsDigit(s[i])
         THEN LET j == DigitRunEnd(s, i)
              IN  <<[class |-> 5, v |-> ParseDigits(s, i, j, 0), up |-> 0]>>
                  \o CollationKey(s, j + 1)
         ELSE <<[class |-> CharWeight(s[i]), v |-> 0,
                 up |-> IF IsUpper(s[i]) THEN 1 ELSE 0]>>
              \o CollationKey(s, i + 1)

RECURSIVE PrimaryCmp(_, _, _)
PrimaryCmp(ka, kb, i) ==
    IF i > Len(ka) /\ i > Len(kb) THEN 0
    ELSE IF i > Len(ka) THEN -1
    ELSE IF i > Len(kb) THEN 1
    ELSE IF ka[i].class # kb[i].class
         THEN (IF ka[i].class < kb[i].class THEN -1 ELSE 1)
    ELSE IF ka[i].v # kb[i].v
         THEN (IF ka[i].v < kb[i].v THEN -1 ELSE 1)
    ELSE PrimaryCmp(ka, kb, i + 1)

RECURSIVE CaseCmp(_, _, _)
CaseCmp(ka, kb, i) ==
    IF i > Len(ka) THEN 0
    ELSE IF ka[i].up # kb[i].up
         THEN (IF ka[i].up < kb[i].up THEN -1 ELSE 1)
    ELSE CaseCmp(ka, kb, i + 1)

localeCompare(a, b) ==
    LET ka == CollationKey(a, 1)
        kb == CollationKey(b, 1)
        p  == PrimaryCmp(ka, kb, 1)
    IN  IF p # 0 THEN p ELSE CaseCmp(ka, kb, 1)

\* the comparator of getImageFiles: negative, zero or positive
CompareFiles(a, b) ==
    LET numA == FirstInt(a.name)
        numB == FirstInt(b.name)
    IN  IF numA # numB THEN numA - numB
        ELSE localeCompare(a.name, b.name)

\* Array.prototype.sort with a comparator: stable
RECURSIVE InsertSorted(_, _)
InsertSorted(sorted, f) ==
    IF sorted = <<>> THEN <<f>>
    ELSE IF CompareFiles(f, sorted[Len(sorted)]) < 0
         THEN InsertSorted(SubSeq(sorted, 1, Len(sorted) - 1), f)
              \o <<sorted[Len(sorted)]>>
         ELSE sorted \o <<f>>

RECURSIVE SortFiles(_)
SortFiles(files) ==
    IF files = <<>> THEN <<>>
    ELSE InsertSorted(SortFiles(SubSeq(files, 1, Len(files) - 1)),
                      files[Len(files)])

RECURSIVE FilterSeq(_, _)
FilterSeq(files, formats) ==
    IF files = <<>> THEN <<>>
    ELSE (IF toLowerCase(extname(files[1])) \in formats
          THEN <<files[1]>> ELSE <<>>)
         \o FilterSeq(SubSeq(files, 2, Len(files)), formats)

\* the supported formats of a config, as character sequences
ExtChars ==
    [e \in SupportedFormats |->
        CASE e = ".jpg"  -> <<".", "j", "p", "g">>
          [] e = ".jpeg" -> <<".", "j", "p", "e", "g">>
          [] e = ".png"  -> <<".", "p", "n", "g">>
          [] e = ".gif"  -> <<".", "g", "i", "f">>
          [] e = ".bmp"  -> <<".", "b", "m", "p">>
          [] e = ".webp" -> <<".", "w", "e", "b", "p">>]

FormatsOf(cfg) == {ExtChars[e] : e \in cfg.supportedFormats}

\* getImageFiles(dir): dir is a path, a sequence of directory names; listing
\* is what readdirSync returns, [ok |-> FALSE] when it throws, with the set
\* of the names statSync throws for (a dangling link, a file removed since).
\* statSync is called on every kept name inside the same try, so one such
\* name among the kept ones makes the catch return [].
getImageFiles(cfg, dir, listing) ==
    IF ~listing.ok THEN <<>>
    ELSE LET kept == FilterSeq(listing.files, FormatsOf(cfg))
         IN  IF \E i \in 1..Len(kept) : kept[i] \in listing.broken
             THEN <<>>
             ELSE SortFiles([i \in 1..Len(kept) |->
                               [name |-> kept[i],
                                fullPath |-> Append(dir, kept[i])]])

----------------------------------------------------------------------------
(* cli.ts: the configuration pipeline.  An option or environment variable  *)
(* that is absent is the empty string: the code tests both for truthiness. *)
(* A partial Config (the environment's, the file's) is a function on the   *)
(* keys it sets.                                                           *)

Empty == [k \in {} |-> ""]

\* loadFromEnv: only the two directories, each only when non-empty
loadFromEnv(env) ==
    [k \in {x \in {"sourceDir", "outputDir"} :
              (x = "sourceDir" /\ env.IMG_TO_PDF_SOURCE_DIR # "")
              \/ (x = "outputDir" /\ env.IMG_TO_PDF_OUTPUT_DIR # "")}
       |-> IF k = "sourceDir" THEN env.IMG_TO_PDF_SOURCE_DIR
           ELSE env.IMG_TO_PDF_OUTPUT_DIR]

\* getPresetConfig, and main's default when no preset is named
getPresetConfig(preset) ==
    CASE preset = "music"        -> musicSheetConfig
      [] preset = "high-quality" -> highQualityConfig
      [] preset = "compact"      -> compactConfig

BaseConfig(cliOptions) ==
    IF cliOptions.preset # "" THEN getPresetConfig(cliOptions.preset)
    ELSE musicSheetConfig

\* Object.assign(target, source)
ObjectAssign(target, source) ==
    [k \in DOMAIN target \cup DOMAIN source |->
        IF k \in DOMAIN source THEN source[k] ELSE target[k]]

\* a merge that applies the environment after the config file
mergeConfigsEnvLast(baseConfig, envConfig, fileConfig, cliOptions) ==
    LET withFile == ObjectAssign(baseConfig, fileConfig)
        withEnv  == ObjectAssign(withFile, envConfig)
        withSrc  == IF cliOptions.sourceDir # ""
                    THEN [withEnv EXCEPT !["sourceDir"] = cliOptions.sourceDir]
                    ELSE withEnv
    IN  IF cliOptions.outputDir # ""
        THEN [withSrc EXCEPT !["outputDir"] = cliOptions.outputDir]
        ELSE withSrc

\* mergeConfigs: a copy of the base, then the environment, then the file,
\* then the two command-line directories
mergeConfigs(baseConfig, envConfig, fileConfig, cliOptions) ==
    LET copy     == baseConfig
        withEnv  == ObjectAssign(copy, envConfig)
        withFile == ObjectAssign(withEnv, fileConfig)
        withSrc  == IF cliOptions.sourceDir # ""
                    THEN [withFile EXCEPT !["sourceDir"] = cliOptions.sourceDir]
                    ELSE withFile
    IN  IF cliOptions.outputDir # ""
        THEN [withSrc EXCEPT !["outputDir"] = cliOptions.outputDir]
        ELSE withSrc

\* what the preset object passed as baseConfig holds after mergeConfigs:
\* the merge works on the spread copy { ...baseConfig }, never on the object
BaseAfterMerge(baseConfig, envConfig, fileConfig, cliOptions) == baseConfig

----------------------------------------------------------------------------
(* The file system the converter sees.                                     *)

\* what a directory path is: a directory, a regular file, nothing yet, or
\* nothing and not creatable (mkdirSync throws)
PathKinds == {"dir", "file", "missing", "uncreatable"}

existsSync(dirs, p) == p # "" /\ dirs[p] \in {"dir", "file"}

isDirectory(dirs, p) == dirs[p] = "dir"

\* fs.mkdirSync(p, {recursive: true}) of a path that does not exist
MkdirThrows(dirs, p) == p = "" \/ dirs[p] = "uncreatable"

Mkdir(dirs, p) == [dirs EXCEPT ![p] = "dir"]

\* validateConfig: whether it found an error (it then exits with code 1),
\* and the directories afterwards (it creates a missing output directory
\* before it reports)
validateConfig(config, dirs) ==
    LET src == config["sourceDir"]
        out == config["outputDir"]
        srcError == src = "" \/ ~existsSync(dirs, src) \/ ~isDirectory(dirs, src)
        outMake  == out # "" /\ ~existsSync(dirs, out)
        outError == out = "" \/ (outMake /\ MkdirThrows(dirs, out))
    IN  [errors |-> srcError \/ outError,
         dirs   |-> IF outMake /\ ~MkdirThrows(dirs, out)
                    THEN Mkdir(dirs, out) ELSE dirs]

\* loadConfigFromFile's check of the file's own sourceDir (exit code 1)
FileConfigRejected(fileConfig, dirs) ==
    /\ "sourceDir" \in DOMAIN fileConfig
    /\ fileConfig["sourceDir"] # ""
    /\ ~existsSync(dirs, fileConfig["sourceDir"])

\* The words of a command line are sequences of one-character strings, so
\* that parseArgs can look at their first character.  Spelling is the
\* vocabulary of the modelled command lines: each text with its characters.
Spelling ==
    ("" :> <<>>)
    @@ ("--source-dir" :> <<"-", "-", "s", "o", "u", "r", "c", "e", "-", "d", "i", "r">>)
    @@ ("-s" :> <<"-", "s">>)
    @@ ("--output-dir" :> <<"-", "-", "o", "u", "t", "p", "u", "t", "-", "d", "i", "r">>)
    @@ ("-o" :> <<"-", "o">>)
    @@ ("--config" :> <<"-", "-", "c", "o", "n", "f", "i", "g">>)
    @@ ("-c" :> <<"-", "c">>)
    @@ ("--preset" :> <<"-", "-", "p", "r", "e", "s", "e", "t">>)
    @@ ("-p" :> <<"-", "p">>)
    @@ ("--help" :> <<"-", "-", "h", "e", "l", "p">>)
    @@ ("-h" :> <<"-", "h">>)
    @@ ("--version" :> <<"-", "-", "v", "e", "r", "s", "i", "o", "n">>)
    @@ ("-v" :> <<"-", "v">>)
    @@ ("--bogus" :> <<"-", "-", "b", "o", "g", "u", "s">>)
    @@ ("-z" :> <<"-", "z">>)
    @@ ("--preset=music" :> <<"-", "-", "p", "r", "e", "s", "e", "t", "=", "m", "u", "s", "i", "c">>)
    @@ ("-" :> <<"-">>)
    @@ ("--" :> <<"-", "-">>)
    @@ ("-1" :> <<"-", "1">>)
    @@ ("music" :> <<"m", "u", "s", "i", "c">>)
    @@ ("high-quality" :> <<"h", "i", "g", "h", "-", "q", "u", "a", "l", "i", "t", "y">>)
    @@ ("compact" :> <<"c", "o", "m", "p", "a", "c", "t">>)
    @@ ("bogus" :> <<"b", "o", "g", "u", "s">>)
    @@ ("extra" :> <<"e", "x", "t", "r", "a">>)
    @@ ("in" :> <<"i", "n">>)
    @@ ("out" :> <<"o", "u", "t">>)
    @@ ("newout" :> <<"n", "e", "w", "o", "u", "t">>)
    @@ ("ro/out" :> <<"r", "o", "/", "o", "u", "t">>)
    @@ ("gone" :> <<"g", "o", "n", "e">>)
    @@ ("afile" :> <<"a", "f", "i", "l", "e">>)
    @@ ("temp_compressed" :> <<"t", "e", "m", "p", "_", "c", "o", "m", "p", "r", "e", "s", "s", "e", "d">>)
    @@ ("cfg.json" :> <<"c", "f", "g", ".", "j", "s", "o", "n">>)

\* the command line of a list of texts
Spell(texts) == [i \in DOMAIN texts |-> Spelling[texts[i]]]

\* a path that is none of the model's
OtherText == "(other)"

\* the text of a word, for the values that go into the configuration
Text(word) ==
    IF \E t \in DOMAIN Spelling : Spelling[t] = word
    THEN CHOOSE t \in DOMAIN Spelling : Spelling[t] = word
    ELSE OtherText

\* arg && arg.startsWith('-')
StartsWithDash(arg) == arg # <<>> /\ arg[1] = "-"

\* const options: CLIOptions = {}: a field that is not set is empty
NoOptions ==
    [sourceDir |-> <<>>, outputDir |-> <<>>, config |-> <<>>, preset |-> <<>>,
     help |-> FALSE, version |-> FALSE]

\* args[++i]: undefined past the end, which every later test takes as absent
ArgAt(args, i) == IF i <= Len(args) THEN args[i] ELSE <<>>

\* parseArgs from position i on: an option with a value consumes the next
\* word whatever it is; an invalid preset and an unknown option end the
\* process with exit code 1
RECURSIVE ParseFrom(_, _, _)
ParseFrom(args, i, options) ==
    IF i > Len(args) THEN [exited |-> FALSE, options |-> options]
    ELSE LET arg   == args[i]
             value == ArgAt(args, i + 1)
         IN  CASE arg \in {Spelling["--source-dir"], Spelling["-s"]} ->
                    ParseFrom(args, i + 2, [options EXCEPT !.sourceDir = value])
               [] arg \in {Spelling["--output-dir"], Spelling["-o"]} ->
                    ParseFrom(args, i + 2, [options EXCEPT !.outputDir = value])
               [] arg \in {Spelling["--config"], Spelling["-c"]} ->
                    ParseFrom(args, i + 2, [options EXCEPT !.config = value])
               [] arg \in {Spelling["--preset"], Spelling["-p"]} ->
                    IF value \in {Spelling["music"], Spelling["high-quality"],
                                  Spelling["compact"]}
                    THEN ParseFrom(args, i + 2, [options EXCEPT !.preset = value])
                    ELSE [exited |-> TRUE, options |-> options]
               [] arg \in {Spelling["--help"], Spelling["-h"]} ->
                    ParseFrom(args, i + 1, [options EXCEPT !.help = TRUE])
               [] arg \in {Spelling["--version"], Spelling["-v"]} ->
                    ParseFrom(args, i + 1, [options EXCEPT !.version = TRUE])
               [] OTHER ->
                    IF StartsWithDash(arg)
                    THEN [exited |-> TRUE, options |-> options]
                    ELSE ParseFrom(args, i + 1, options)

parseArgs(args) == ParseFrom(args, 1, NoOptions)

\* the options as the rest of main reads them: texts, "" for a field that
\* is not set
TextOptions(options) ==
    [sourceDir |-> Text(options.sourceDir),
     outputDir |-> Text(options.outputDir),
     config    |-> Text(options.config),
     preset    |-> Text(options.preset),
     help      |-> options.help,
     version   |-> options.version]

\* a config file: missing, not JSON, or the object it holds
NoFile == [state |-> "missing", content |-> Empty]

ReadFile(files, path) == IF path \in DOMAIN files THEN files[path] ELSE NoFile

\* loadConfigFromFile: a missing file, invalid JSON and a sourceDir of the
\* file that does not exist end the process with exit code 1
loadConfigFromFile(configPath, files, dirs) ==
    LET file == ReadFile(files, configPath)
    IN  IF file.state # "ok" \/ FileConfigRejected(file.content, dirs)
        THEN [exited |-> TRUE, config |-> Empty]
        ELSE [exited |-> FALSE, config |-> file.content]

\* main: the config file named by --config, else by IMG_TO_PDF_CONFIG
FileConfigOf(cliOptions, env, files, dirs) ==
    IF cliOptions.config # ""
    THEN loadConfigFromFile(cliOptions.config, files, dirs)
    ELSE IF env.IMG_TO_PDF_CONFIG # ""
    THEN loadConfigFromFile(env.IMG_TO_PDF_CONFIG, files, dirs)
    ELSE [exited |-> FALSE, config |-> Empty]

\* the pixel size image-size reports for a source image: the stored width
\* and height, whatever the EXIF orientation
ImagePixels(name) ==
    CASE name = <<"1", ".", "j", "p", "g">> -> <<3264, 2448>>
      [] name = <<"2", ".", "j", "p", "g">> -> <<600, 800>>
      [] name = <<"a", ".", "p", "n", "g">> -> <<1000, 1000>>
      [] name = <<"a", ".", "j", "p", "g">> -> <<1000, 1400>>
      [] name = <<"1", "0", ".", "j", "p", "g">> -> <<1400, 1000>>
      [] OTHER -> <<640, 480>>

\* the EXIF orientation of a source image, 1 to 8; 1 when it has none
ImageOrientation(name) ==
    CASE name = <<"a", ".", "j", "p", "g">> -> 6
      [] name = <<"1", "0", ".", "j", "p", "g">> -> 6
      [] name = <<"1", ".", "j", "p", "g">> -> 3
      [] OTHER -> 1

\* whether a property key is an array index: the canonical decimal form of
\* an integer from 0 to 2^32 - 2
IsArrayIndex(key) ==
    /\ key # <<>>
    /\ \A i \in 1..Len(key) : IsDigit(key[i])
    /\ (Len(key) = 1 \/ key[1] # "0")
    /\ Len(key) <= 10
    /\ (Len(key) = 10 =>
          \/ ParseDigits(key, 1, 9, 0) < 429496729
          \/ ParseDigits(key, 1, 9, 0) = 429496729 /\ DigitVal(key[10]) <= 4)

\* the order of two array indices in canonical form
IndexLess(a, b) ==
    \/ Len(a) < Len(b)
    \/ /\ Len(a) = Len(b)
       /\ \E i \in 1..Len(a) :
            /\ DigitVal(a[i]) < DigitVal(b[i])
            /\ \A k \in 1..(i - 1) : a[k] = b[k]

\* whether a new key goes before an entry already there: only an array
\* index does, before the keys that are not array indices and before the
\* larger array indices
GoesBefore(key, other) ==
    /\ IsArrayIndex(key)
    /\ (IsArrayIndex(other) => IndexLess(key, other))

\* the key whose assignment sets the prototype of a plain object
ProtoKey == <<"_", "_", "p", "r", "o", "t", "o", "_", "_">>

\* Object.entries order of a Record<string, DirectoryInfo> built by
\* assignments: the array-index keys first, in ascending order, then the
\* other keys in the order of their first assignment; an existing key
\* keeps its place.  Assigning an object to __proto__ replaces the
\* prototype and makes no property of the object.
RECURSIVE PutEntry(_, _, _)
PutEntry(entries, key, info) ==
    IF key = ProtoKey THEN entries
    ELSE IF entries = <<>> THEN <<[key |-> key, info |-> info]>>
    ELSE IF entries[1].key = key
         THEN <<[key |-> key, info |-> info]>> \o SubSeq(entries, 2, Len(entries))
    ELSE IF GoesBefore(key, entries[1].key)
            /\ \A k \in 1..Len(entries) : entries[k].key # key
         THEN <<[key |-> key, info |-> info]>> \o entries
         ELSE <<entries[1]>> \o PutEntry(SubSeq(entries, 2, Len(entries)), key, info)

DirectoryInfo(path, images) ==
    [path |-> path, images |-> images, count |-> Len(images)]

\* the loop of scanDirectories over the entries of rootDir in readdir order:
\* statSync is called on every entry and throws for a broken one, which
\* ends the loop with the groups found so far
RECURSIVE ScanSubs(_, _, _, _)
ScanSubs(cfg, rootDir, items, acc) ==
    IF items = <<>> THEN [entries |-> acc, threw |-> FALSE]
    ELSE LET item     == items[1]
             fullPath == <<rootDir, item.name>>
             images   == getImageFiles(cfg, fullPath, item.listing)
         IN  IF item.kind = "broken" THEN [entries |-> acc, threw |-> TRUE]
             ELSE ScanSubs(cfg, rootDir, SubSeq(items, 2, Len(items)),
                           IF item.kind = "dir" /\ Len(images) > 0
                           THEN PutEntry(acc, item.name,
                                         DirectoryInfo(fullPath, images))
                           ELSE acc)

\* the key of the group of the images of rootDir itself
RootKey == <<"_", "r", "o", "o", "t">>

\* scanDirectories(rootDir): tree.items are the entries of rootDir in readdir
\* order.  Reading a path that is not a directory throws and the catch
\* returns {}; a throw inside the loop returns the groups found so far,
\* without the scan of rootDir's own images.  That scan lists rootDir
\* again, directories included.
scanDirectories(cfg, rootDir, kind, tree) ==
    IF kind # "dir" THEN <<>>
    ELSE LET subs       == ScanSubs(cfg, rootDir, tree.items, <<>>)
             rootImages == getImageFiles(cfg, <<rootDir>>,
                             [ok |-> TRUE,
                              files |-> [k \in 1..Len(tree.items) |->
                                           tree.items[k].name],
                              broken |-> {}])
         IN  IF subs.threw THEN subs.entries
             ELSE IF Len(rootImages) > 0
             THEN PutEntry(subs.entries, RootKey,
                           DirectoryInfo(<<rootDir>>, rootImages))
             ELSE subs.entries

----------------------------------------------------------------------------
(* index.ts: compressImage, compressImages and the pages of createPDF.     *)

TempDir == "temp_compressed"

CompressedSuffix ==
    <<"_", "c", "o", "m", "p", "r", "e", "s", "s", "e", "d", ".", "j", "p", "g">>

\* `${basename}_compressed.jpg` for path.basename(imagePath, ext) with the
\* lower-cased extension
CompressedName(name) ==
    basename(name, toLowerCase(extname(name))) \o CompressedSuffix

\* this.config.autoRotate: absent counts as off
AutoRotateOf(cfg) == "autoRotate" \in DOMAIN cfg /\ cfg.autoRotate

\* sharp's rotate() without an angle: the image is turned as its EXIF
\* orientation says, which swaps width and height for orientations 5 to 8
RotatedPixels(px, orientation) ==
    IF orientation \in 5..8 THEN <<px[2], px[1]>> ELSE px

\* what sharp writes for an image of px stored pixels: rotate() when
\* autoRotate is on, then resize(maxW, maxH, {fit: "inside",
\* withoutEnlargement: true}) when the dimensions compressImage probed
\* (the stored ones, or 800x600 after a failed probe) exceed either maximum
SharpOutputPixels(px, orientation, probed, cfg) ==
    LET turned == IF AutoRotateOf(cfg) THEN RotatedPixels(px, orientation)
                  ELSE px
        w  == turned[1]
        h  == turned[2]
        mw == cfg.maxImageWidth
        mh == cfg.maxImageHeight
    IN  IF probed[1] <= mw /\ probed[2] <= mh THEN turned
        ELSE IF w <= mw /\ h <= mh THEN turned
        ELSE IF mw * h <= mh * w
             THEN <<mw, (2 * h * mw + w) \div (2 * w)>>
             ELSE <<(2 * w * mh + h) \div (2 * h), mh>>

\* writing a file replaces a file of the same name
WriteFile(files, f) == {g \in files : g.name # f.name} \cup {f}

\* compressImage: the one path sharp writes to, inside the scratch directory
CompressOutputPath(image) == <<TempDir, CompressedName(image.name)>>

\* the outcomes of one compressImage: whether image-size answered, whether
\* sharp wrote the file, whether statSync of the written file succeeded
CompressOutcomes == [probe : BOOLEAN, sharp : BOOLEAN, stat : BOOLEAN]

\* compressImage returns outputPath only when nothing inside its try threw
CompressSucceeded(outcome) == outcome.sharp /\ outcome.stat

\* compressImages, one image: ok says whether compressImage succeeded.  On
\* failure the original path is kept.
CompressedImage(image, ok) ==
    [name         |-> image.name,
     fullPath     |-> IF ok THEN CompressOutputPath(image)
                      ELSE image.fullPath,
     originalPath |-> image.fullPath,
     compressed   |-> ok]

\* compressImages with preCompressImages off: the images pass through
PassThrough(images) == images

\* getImageDimensions: the probe's answer, or 800x600 when it throws
getImageDimensions(imageFile, files, probeOk) ==
    IF ~probeOk THEN <<800, 600>>
    ELSE IF imageFile.fullPath[1] = TempDir
              /\ \E f \in files : f.name = imageFile.fullPath[2]
         THEN LET f == CHOOSE g \in files : g.name = imageFile.fullPath[2]
              IN  f.pixels
         ELSE ImagePixels(imageFile.name)

NoRect == [x |-> DZero, y |-> DZero, w |-> DZero, h |-> DZero]

DocOp(op, i, px, rect, path) ==
    [op |-> op, img |-> i, pixels |-> px, rect |-> rect, path |-> path]

\* one iteration of the forEach of createPDF: the instructions the document
\* receives for image i.  A throw of calculateOptimalLayout comes before
\* addPage; a throw of doc.addPage comes before the background fill; a
\* throw of doc.image comes after it; all are caught by the iteration's own
\* catch.
PageOps(cfg, i, imageFile, files, outcome) ==
    LET px == getImageDimensions(imageFile, files, outcome.probe)
        Calls(layout) ==
            IF layout.threw \/ ~outcome.page THEN <<>>
            ELSE <<DocOp("addPage", i, px, NoRect, <<>>),
                   DocOp("rect", i, px,
                         [x |-> DZero, y |-> DZero,
                          w |-> layout.pageWidth, h |-> layout.pageHeight],
                         <<>>)>>
                 \o (IF outcome.place
                     THEN <<DocOp("image", i, px,
                                  [x |-> layout.x, y |-> layout.y,
                                   w |-> layout.width, h |-> layout.height],
                                  imageFile.fullPath)>>
                     ELSE <<>>)
    IN  The({Calls(layout)
               : layout \in {calculateOptimalLayout(cfg, px[1], px[2],
                                                    cfg.pageSize)}})

RECURSIVE ComposeFrom(_, _, _, _, _)
ComposeFrom(cfg, images, files, outcomes, i) ==
    IF i > Len(images) THEN <<>>
    ELSE PageOps(cfg, i, images[i], files, outcomes[i])
         \o ComposeFrom(cfg, images, files, outcomes, i + 1)

\* the whole forEach
ComposeOps(cfg, images, files, outcomes) ==
    ComposeFrom(cfg, images, files, outcomes, 1)

\* unlinkSync throws for an entry that is a directory
CleanupThrows(scratch) == \E f \in scratch.files : f.kind = "dir"

\* what the cleanup may unlink: every entry of the scratch directory when
\* nothing throws, and the entries that readdirSync listed before the first
\* directory otherwise.  The order of readdirSync is the file system's, so
\* these are any of the plain files.  The documents of the run that lie in
\* the scratch directory are entries of it as well.
CleanupChoices(scratch, docs) ==
    LET plain  == {f \in scratch.files : f.kind = "file"}
        inside == {d \in docs : d.dir = TempDir}
    IN  IF ~scratch.exists THEN {[files |-> {}, docs |-> {}]}
        ELSE IF CleanupThrows(scratch)
             THEN [files : SUBSET plain, docs : SUBSET inside]
             ELSE {[files |-> plain, docs |-> inside]}

\* the finish handler's cleanup: if the scratch directory exists its
\* entries are unlinked and the directory removed; when unlinkSync throws
\* the catch leaves the directory with the entries not yet unlinked
CleanupScratch(cfg, scratch, unlinked) ==
    IF ~scratch.exists THEN scratch
    ELSE IF CleanupThrows(scratch)
         THEN [exists |-> TRUE, files |-> scratch.files \ unlinked]
         ELSE [exists |-> FALSE, files |-> {}]

\* the paths the finish handler unlinks: names readdirSync gave, each joined
\* to the scratch directory.  The images of the call are in scope of the
\* handler and are not consulted.
CleanupTargets(unlinked, compressedImages) ==
    {<<TempDir, f.name>> : f \in unlinked}

\* the paths of the images of every group of a scan
SourcePaths(found) ==
    UNION {{found[g].info.images[i].fullPath :
              i \in DOMAIN found[g].info.images} : g \in DOMAIN found}

\* run: the name of a group's document
DisplayName(folderName) ==
    IF folderName = RootKey THEN <<"r", "o", "o", "t">> ELSE folderName

\* run: `${displayName}_${timestamp}.pdf` in the output directory, the
\* timestamp being the day new Date() gives when the group is started
OutputPath(cfg, folderName, day) ==
    [dir |-> cfg["outputDir"], file |-> DisplayName(folderName), day |-> day]

----------------------------------------------------------------------------
VARIABLES
    lay,          \* one call of calculateOptimalLayout: arguments and result
    srt,          \* one call of getImageFiles: the listing and the result
    mrg,          \* one configuration merge of cli.ts main
    launch,       \* how the process was started: entry point, options,
                  \* environment, config file
    dirs,         \* the kind of every directory path
    tree,         \* the content of the source directory
    config,       \* the converter's configuration (this.config)
    pc,           \* where main / run stand
    exitCode,     \* the process exit code, -1 while it runs
    directories,  \* run: the entries of scanDirectories' result, in order
    gi,           \* run: the index of the group of the current iteration
    successCount,
    totalCount,
    calls,        \* the createPDF calls so far: folder, output path, outcome
    scratch,      \* the temp_compressed directory: whether it exists, its files
    outFiles,     \* the documents of the run that are on disk
    cp,           \* the createPDF call in progress
    sourceFiles   \* the paths of the scanned source images that are still
                  \* on disk as the scan found them

subVars == <<lay, srt, mrg>>
runVars == <<launch, dirs, tree, config, pc, exitCode, directories, gi,
             successCount, totalCount, calls, scratch, outFiles, cp,
             sourceFiles>>
vars == <<lay, srt, mrg, launch, dirs, tree, config, pc, exitCode,
          directories, gi, successCount, totalCount, calls, scratch,
          outFiles, cp, sourceFiles>>

LayIdle == [phase |-> "idle"]
SrtIdle == [phase |-> "idle"]
MrgIdle == [phase |-> "idle"]
CpIdle == [phase |-> "idle"]
NoScratch == [exists |-> FALSE, files |-> {}]

\* the converter does not run
RunIdle ==
    /\ launch = [entry |-> "none"]
    /\ dirs = Empty
    /\ tree = [items |-> <<>>]
    /\ config = Empty
    /\ pc = "idle"
    /\ exitCode = -1
    /\ directories = <<>>
    /\ gi = 0
    /\ successCount = 0
    /\ totalCount = 0
    /\ calls = <<>>
    /\ scratch = NoScratch
    /\ outFiles = {}
    /\ cp = CpIdle
    /\ sourceFiles = {}

----------------------------------------------------------------------------
(* SpecLayout: calculateOptimalLayout applied to bounded inputs.           *)

MaxDim == 5

ImgSizes == (1..MaxDim) \cup {600, 800, 2448, 3264}

FillModes == {"fit", "stretch", "crop", "custom", "cover"}

MinimumMargins == {0, 10}

PageSizes == {"A4", "A3", "Letter", "Legal", "A5", "constructor"}

Presets == {musicSheetConfig, highQualityConfig, compactConfig}

WithoutKeys(cfg, keys) == [k \in DOMAIN cfg \ keys |-> cfg[k]]

LayoutConfigs ==
    {[base EXCEPT !.fillMode = f, !.minimumMargin = m, !.pageSize = p] :
        base \in Presets, f \in FillModes, m \in MinimumMargins, p \in PageSizes}
    \cup {WithoutKeys([defaultConfig EXCEPT !.fillMode = f],
                      {"minimumMargin", "customMargin"}) : f \in FillModes}

InitLayout ==
    /\ lay \in {[phase |-> "call", cfg |-> c, imgWidth |-> w, imgHeight |-> h]
                  : c \in LayoutConfigs, w \in ImgSizes, h \in ImgSizes}
    /\ srt = SrtIdle
    /\ mrg = MrgIdle
    /\ RunIdle

CalcLayout ==
    /\ lay.phase = "call"
    /\ lay' = [phase |-> "returned", cfg |-> lay.cfg,
               imgWidth |-> lay.imgWidth, imgHeight |-> lay.imgHeight,
               result |-> calculateOptimalLayout(lay.cfg, lay.imgWidth,
                                                 lay.imgHeight, lay.cfg.pageSize)]
    /\ UNCHANGED <<srt, mrg>>
    /\ UNCHANGED runVars

NextLayout == CalcLayout

SpecLayout == InitLayout /\ [][NextLayout]_vars

----------------------------------------------------------------------------
(* SpecSort: getImageFiles applied to bounded directory listings.          *)

MaxFiles == 3

FileNames ==
    {<<"1", ".", "j", "p", "g">>,
     <<"2", ".", "j", "p", "g">>,
     <<"1", "0", ".", "j", "p", "g">>,
     <<"a", "2", ".", "j", "p", "g">>,
     <<"b", "1", ".", "p", "n", "g">>,
     <<"b", ".", "j", "p", "g">>,
     <<"B", ".", "J", "P", "G">>,
     <<"x", ".", "t", "x", "t">>}

RECURSIVE Listings(_)
Listings(n) ==
    IF n = 0 THEN {<<>>}
    ELSE LET shorter == Listings(n - 1)
         IN  shorter \cup
             {Append(l, f) : l \in {k \in shorter : Len(k) = n - 1},
                             f \in FileNames}

NoRepeat(l) == \A i, j \in 1..Len(l) : i # j => l[i] # l[j]

InitSort ==
    /\ srt \in {[phase |-> "call",
                 listing |-> [ok |-> TRUE, files |-> l, broken |-> b]]
                  : l \in {k \in Listings(MaxFiles) : NoRepeat(k)},
                    b \in {{}} \cup {{f} : f \in FileNames}}
               \cup {[phase |-> "call",
                      listing |-> [ok |-> FALSE, files |-> <<>>, broken |-> {}]]}
    /\ srt.listing.broken \subseteq {srt.listing.files[i] :
                                       i \in 1..Len(srt.listing.files)}
    /\ lay = LayIdle
    /\ mrg = MrgIdle
    /\ RunIdle

CallGetImageFiles ==
    /\ srt.phase = "call"
    /\ srt' = [phase |-> "returned", listing |-> srt.listing,
               result |-> getImageFiles(defaultConfig, <<"in">>, srt.listing)]
    /\ UNCHANGED <<lay, mrg>>
    /\ UNCHANGED runVars

NextSort == CallGetImageFiles

SpecSort == InitSort /\ [][NextSort]_vars

----------------------------------------------------------------------------
(* SpecMerge: the configuration cli.ts main builds (lines 238-261), for    *)
(* bounded command lines, environments and config files.                   *)

PresetNames == {"music", "high-quality", "compact"}

ThePresets == [n \in PresetNames |-> getPresetConfig(n)]

MergeCliOptions ==
    {[TextOptions(NoOptions) EXCEPT !.sourceDir = s, !.outputDir = o,
                                    !.preset = p, !.config = c] :
        s \in {"", "cli-src"}, o \in {"", "cli-out"},
        p \in {""} \cup PresetNames, c \in {"", "cfg.json"}}

MergeEnvs ==
    {[IMG_TO_PDF_SOURCE_DIR |-> s, IMG_TO_PDF_OUTPUT_DIR |-> o,
      IMG_TO_PDF_CONFIG |-> c] :
        s \in {"", "env-src"}, o \in {"", "env-out"}, c \in {"", "cfg.json"}}

MergeFiles ==
    {Empty,
     [sourceDir |-> "file-src"],
     [outputDir |-> "file-out"],
     [sourceDir |-> "file-src", outputDir |-> "file-out"],
     [sourceDir |-> "", pageSize |-> "A3"],
     [pageSize |-> "Letter", jpegQuality |-> 50],
     [fillMode |-> "fit", margin |-> 20, preCompressImages |-> FALSE],
     [showFilename |-> TRUE]}

\* what the config path holds: nothing, something that is not JSON, or one
\* of the objects
MergeFileSystems ==
    {Empty}
    \cup {[p \in {"cfg.json"} |-> [state |-> "invalid", content |-> Empty]]}
    \cup {[p \in {"cfg.json"} |-> [state |-> "ok", content |-> f]]
            : f \in MergeFiles}

MergeDirs == {[p \in {"file-src"} |-> k] : k \in {"dir", "missing"}}

InitMerge ==
    /\ mrg \in {[phase |-> "call", cli |-> c, env |-> e, files |-> f,
                 dirs |-> d, presets |-> ThePresets]
                  : c \in MergeCliOptions, e \in MergeEnvs,
                    f \in MergeFileSystems, d \in MergeDirs}
    /\ (mrg.cli.config = "" \/ mrg.env.IMG_TO_PDF_CONFIG = "")
    /\ lay = LayIdle
    /\ srt = SrtIdle
    /\ RunIdle

PresetNameOf(cliOptions) ==
    IF cliOptions.preset # "" THEN cliOptions.preset ELSE "music"

\* cli.ts main from the choice of the base configuration to mergeConfigs
BuildFinalConfig ==
    /\ mrg.phase = "call"
    /\ LET name == PresetNameOf(mrg.cli)
           base == mrg.presets[name]
           envConfig == loadFromEnv(mrg.env)
           loaded == FileConfigOf(mrg.cli, mrg.env, mrg.files, mrg.dirs)
       IN  mrg' = IF loaded.exited
                  THEN [phase |-> "exited", cli |-> mrg.cli, env |-> mrg.env,
                        exitCode |-> 1]
                  ELSE [phase |-> "merged", cli |-> mrg.cli, env |-> mrg.env,
                        file |-> loaded.config,
                        presets |-> [mrg.presets EXCEPT ![name] =
                                       BaseAfterMerge(base, envConfig,
                                                      loaded.config, mrg.cli)],
                        finalConfig |-> mergeConfigs(base, envConfig,
                                                     loaded.config, mrg.cli)]
    /\ UNCHANGED <<lay, srt>>
    /\ UNCHANGED runVars

NextMerge == BuildFinalConfig

SpecMerge == InitMerge /\ [][NextMerge]_vars

----------------------------------------------------------------------------
(* Spec: one run of the program, from either entry point (cli.ts main, or  *)
(* index.ts main with the default configuration) to its exit.  The steps   *)
(* of one action are synchronous code; an action ends where the code       *)
(* awaits (a compression, the output stream) or the process exits.         *)

MaxImages == 2

PathNames == {"in", "gone", "afile", "out", "newout", "ro/out",
              "~/Downloads/img-to-pdf", "~/Downloads", TempDir, OtherText}

\* the directories before the run; the default source directory of the
\* presets may or may not exist, and so may the scratch directory
InitialDirs(home, temp) ==
    [p \in PathNames |->
        CASE p = "in"       -> "dir"
          [] p = "gone"     -> "missing"
          [] p = "afile"    -> "file"
          [] p = "out"      -> "dir"
          [] p = "newout"   -> "missing"
          [] p = "ro/out"   -> "uncreatable"
          [] p = "~/Downloads/img-to-pdf" -> home
          [] p = "~/Downloads" -> "dir"
          [] p = TempDir    -> temp
          [] p = OtherText  -> "missing"]

\* the scratch directory is one of the directories
ScratchOf(sc, d) == [sc EXCEPT !.exists = (d[TempDir] = "dir")]

DirsOf(d, sc) ==
    [d EXCEPT ![TempDir] = IF sc.exists THEN "dir" ELSE "missing"]

\* a scratch directory that exists when the process starts and holds a
\* sub-directory
LeftOver ==
    [exists |-> TRUE,
     files |-> {[name |-> <<"o", "l", "d">>, kind |-> "dir",
                 pixels |-> <<0, 0>>, from |-> <<>>]}]

MaxDay == 1

Days == 0..MaxDay

NumberedFiles ==
    << <<"2", ".", "j", "p", "g">>,
       <<"1", ".", "j", "p", "g">>,
       <<"1", "0", ".", "j", "p", "g">> >>

NoListing == [ok |-> FALSE, files |-> <<>>, broken |-> {}]

\* entries of a directory: a sub-directory with its own listing, a regular
\* file, an entry statSync throws for
DirEntry(name, files, broken) ==
    [name |-> name, kind |-> "dir",
     listing |-> [ok |-> TRUE, files |-> files, broken |-> broken]]

FileEntry(name) == [name |-> name, kind |-> "file", listing |-> NoListing]

BrokenEntry(name) == [name |-> name, kind |-> "broken", listing |-> NoListing]

\* source trees: two sub-directories with up to MaxImages images in the
\* first; root images beside a sub-directory named _root, or root; no image
\* at all; two root images that differ only in their extension;
\* sub-directories with integer names; a broken entry between two
\* sub-directories; a sub-directory with a dangling link among its images;
\* a sub-directory named __proto__ beside another
PlainTree ==
    [items |-> <<DirEntry(<<"a">>, SubSeq(NumberedFiles, 1, 1), {}),
                 DirEntry(<<"b">>, << <<"a", ".", "p", "n", "g">> >>, {})>>]

\* two root images, a.jpg with EXIF orientation 6
SameBaseTree ==
    [items |-> <<FileEntry(<<"a", ".", "p", "n", "g">>),
                 FileEntry(<<"a", ".", "j", "p", "g">>)>>]

Trees ==
    {[items |-> <<DirEntry(<<"a">>, SubSeq(NumberedFiles, 1, n), {}),
                  DirEntry(<<"b">>, << <<"a", ".", "p", "n", "g">> >>, {})>>]
        : n \in 1..MaxImages}
    \cup
    {[items |-> <<DirEntry(d, << <<"2", ".", "j", "p", "g">> >>, {}),
                  FileEntry(<<"1", ".", "j", "p", "g">>)>>]
        : d \in {RootKey, <<"r", "o", "o", "t">>}}
    \cup
    {[items |-> <<DirEntry(<<"a">>, << <<"x", ".", "t", "x", "t">> >>, {})>>],
     SameBaseTree,
     [items |-> <<DirEntry(<<"b">>, << <<"1", ".", "j", "p", "g">> >>, {}),
                  DirEntry(<<"1", "0">>, << <<"1", "0", ".", "j", "p", "g">> >>, {}),
                  DirEntry(<<"2">>, << <<"2", ".", "j", "p", "g">> >>, {})>>],
     [items |-> <<DirEntry(<<"a">>, << <<"1", ".", "j", "p", "g">> >>, {}),
                  BrokenEntry(<<"m">>),
                  DirEntry(<<"z">>, << <<"2", ".", "j", "p", "g">> >>, {}),
                  FileEntry(<<"1", "0", ".", "j", "p", "g">>)>>],
     [items |-> <<DirEntry(<<"a">>,
                           << <<"1", ".", "j", "p", "g">>,
                              <<"9", ".", "j", "p", "g">> >>,
                           {<<"9", ".", "j", "p", "g">>}),
                  DirEntry(<<"b">>, << <<"2", ".", "j", "p", "g">> >>, {})>>],
     [items |-> <<DirEntry(ProtoKey, << <<"1", ".", "j", "p", "g">> >>, {}),
                  DirEntry(<<"b">>, << <<"2", ".", "j", "p", "g">> >>, {})>>]}

NoEnv ==
    [IMG_TO_PDF_SOURCE_DIR |-> "", IMG_TO_PDF_OUTPUT_DIR |-> "",
     IMG_TO_PDF_CONFIG |-> ""]

\* the words of an option, none when the value is absent
Opt(name, value) == IF value = "" THEN <<>> ELSE <<name, value>>

ConfigFile(content) ==
    [p \in {"cfg.json"} |-> [state |-> "ok", content |-> content]]

CliLaunch(texts, env, files) ==
    [entry |-> "cli", argv |-> Spell(texts), env |-> env, files |-> files]

\* launches that convert: index.ts; cli.ts with and without a preset, with
\* the scratch directory as output directory, and with a config file that
\* turns compression off
RunLaunches ==
    {[entry |-> "index", argv |-> <<>>, env |-> NoEnv, files |-> Empty],
     CliLaunch(<<"--source-dir", "in", "--output-dir", "out">>, NoEnv, Empty),
     CliLaunch(<<"--source-dir", "in", "--output-dir", "out",
                 "--preset", "high-quality">>, NoEnv, Empty),
     CliLaunch(<<"-s", "in", "-o", TempDir>>, NoEnv, Empty),
     CliLaunch(<<"--source-dir", "in", "--output-dir", "out",
                 "--config", "cfg.json">>, NoEnv,
               ConfigFile([sourceDir |-> "afile",
                           preCompressImages |-> FALSE]))}

\* a launch whose config file turns the rotation by EXIF orientation off
NoRotateLaunch ==
    CliLaunch(<<"-s", "in", "-o", "out", "-c", "cfg.json">>, NoEnv,
              ConfigFile([autoRotate |-> FALSE]))

\* a launch whose source directory is the directory createPDF uses as its
\* scratch directory, path.join(__dirname, "temp_compressed"):
\* validateConfig accepts every directory that exists
ScratchSourceLaunch ==
    CliLaunch(<<"-s", TempDir, "-o", "out">>, NoEnv, Empty)

\* what that directory holds as a source directory: two images; an image
\* beside one that has the name compressImage gives its output
ScratchSourceTrees ==
    {[items |-> <<FileEntry(<<"1", ".", "j", "p", "g">>),
                  FileEntry(<<"2", ".", "j", "p", "g">>)>>],
     [items |-> <<FileEntry(<<"1", ".", "j", "p", "g">>),
                  FileEntry(CompressedName(<<"1", ".", "j", "p", "g">>))>>]}

\* the scratch directory that holds the files of a source tree
ScratchHolding(t) ==
    [exists |-> TRUE,
     files |-> {[name |-> t.items[k].name, kind |-> "file",
                 pixels |-> ImagePixels(t.items[k].name), from |-> <<>>]
                  : k \in DOMAIN t.items}]

\* the ways the program is started: the launches above; cli.ts with the
\* directories, a preset and a config file, among them one that names a
\* page size the table does not have and one that names a property of
\* Object.prototype; command lines with a further word: one parseArgs
\* rejects (an invalid or missing preset, a word that begins with "-" and
\* is no option), a request for help or the version, a word it skips (one
\* without "-", the empty word), an option without its value, a config
\* path that begins with "-"; config files that are missing, not JSON,
\* named by the environment, or that name a source directory that does not
\* exist
Launches ==
    RunLaunches
    \cup {NoRotateLaunch, ScratchSourceLaunch}
    \cup
    {CliLaunch(Opt("--source-dir", s) \o Opt("--output-dir", o)
                 \o Opt("--preset", p)
                 \o (IF f = Empty THEN <<>> ELSE <<"--config", "cfg.json">>),
               NoEnv,
               IF f = Empty THEN Empty ELSE ConfigFile(f))
        : s \in {"in", "gone", "afile", ""},
          o \in {"out", "newout", "ro/out"},
          p \in {"", "high-quality"},
          f \in {Empty, [pageSize |-> "A5"], [sourceDir |-> ""],
                 [pageSize |-> "constructor"]}}
    \cup
    {CliLaunch(<<"--source-dir", "in", "--output-dir", "out">> \o more,
               NoEnv, Empty)
        : more \in {<<"--preset", "bogus">>, <<"--preset">>, <<"--bogus">>,
                    <<"--help">>, <<"-v">>, <<"extra">>,
                    <<"--config", "cfg.json">>, <<"-s">>,
                    <<"-z">>, <<"--preset=music">>, <<"-">>, <<"--">>,
                    <<"-1">>, <<"">>, <<"--config", "-z">>}}
    \cup
    {CliLaunch(<<"--source-dir", "in", "--output-dir", "out",
                 "--config", "cfg.json">>, NoEnv, files)
        : files \in {[p \in {"cfg.json"} |->
                        [state |-> "invalid", content |-> Empty]],
                     ConfigFile([sourceDir |-> "gone"])}}
    \cup
    {CliLaunch(<<"--output-dir", "out">>,
               [NoEnv EXCEPT !.IMG_TO_PDF_CONFIG = "cfg.json",
                             !.IMG_TO_PDF_SOURCE_DIR = "gone"],
               ConfigFile([sourceDir |-> "in", fillMode |-> "crop"]))}

\* per image: whether image-size answered, whether doc.addPage took the
\* page size, whether doc.image placed the image
Outcomes == [probe : BOOLEAN, page : BOOLEAN, place : BOOLEAN]

\* doc.addPage({size: pageSize}) is PDFKit's: it takes the four names of
\* the page-format table; for a name of Object.prototype both outcomes are
\* kept.  Where calculateOptimalLayout throws addPage is not reached.
AddPageOutcomes(cfg) ==
    IF cfg.pageSize \in ObjectPrototypeKeys THEN BOOLEAN ELSE {TRUE}

Init ==
    /\ lay = LayIdle
    /\ srt = SrtIdle
    /\ mrg = MrgIdle
    /\ \/ /\ launch \in Launches
          /\ scratch = NoScratch
          /\ tree = PlainTree
          /\ dirs \in {InitialDirs(home, "missing") : home \in {"dir", "missing"}}
       \/ /\ launch = NoRotateLaunch
          /\ scratch = NoScratch
          /\ tree = SameBaseTree
          /\ dirs = InitialDirs("dir", "missing")
       \/ /\ launch = ScratchSourceLaunch
          /\ tree \in ScratchSourceTrees
          /\ scratch = ScratchHolding(tree)
          /\ dirs = InitialDirs("dir", "dir")
       \/ /\ launch \in RunLaunches
          /\ scratch \in {NoScratch, LeftOver}
          /\ tree \in Trees
          /\ dirs = InitialDirs("dir", IF scratch.exists THEN "dir" ELSE "missing")
    /\ config = Empty
    /\ pc = "start"
    /\ exitCode = -1
    /\ directories = <<>>
    /\ gi = 0
    /\ successCount = 0
    /\ totalCount = 0
    /\ calls = <<>>
    /\ outFiles = {}
    /\ cp = CpIdle
    /\ sourceFiles = {}

\* process.exit(code), or the end of main
Exit(code) ==
    /\ pc' = IF code = 0 THEN "done" ELSE "exited"
    /\ exitCode' = code

\* cli.ts main up to mergeConfigs: parseArgs, help and version, the preset,
\* the environment, the config file, the merge
CliLoad ==
    /\ pc = "start"
    /\ launch.entry = "cli"
    /\ LET parsed == parseArgs(launch.argv)
           cliOptions == TextOptions(parsed.options)
           loaded == FileConfigOf(cliOptions, launch.env, launch.files, dirs)
       IN  IF parsed.exited THEN Exit(1) /\ UNCHANGED config
           ELSE IF cliOptions.help \/ cliOptions.version
           THEN Exit(0) /\ UNCHANGED config
           ELSE IF loaded.exited THEN Exit(1) /\ UNCHANGED config
           ELSE /\ config' = mergeConfigs(BaseConfig(cliOptions),
                                          loadFromEnv(launch.env),
                                          loaded.config, cliOptions)
                /\ pc' = "validate"
                /\ UNCHANGED exitCode
    /\ UNCHANGED <<launch, dirs, tree, directories, gi, successCount,
                   totalCount, calls, scratch, outFiles, cp>>
    /\ UNCHANGED sourceFiles
    /\ UNCHANGED subVars

\* cli.ts main, line 264: validateConfig
CliValidate ==
    /\ pc = "validate"
    /\ LET v == validateConfig(config, dirs)
       IN  /\ dirs' = v.dirs
           /\ scratch' = ScratchOf(scratch, v.dirs)
           /\ IF v.errors THEN Exit(1)
              ELSE pc' = "run" /\ UNCHANGED exitCode
    /\ UNCHANGED <<launch, tree, config, directories, gi, successCount,
                   totalCount, calls, outFiles, cp>>
    /\ UNCHANGED sourceFiles
    /\ UNCHANGED subVars

\* index.ts main: the default configuration, no validation
IndexMain ==
    /\ pc = "start"
    /\ launch.entry = "index"
    /\ config' = defaultConfig
    /\ pc' = "run"
    /\ UNCHANGED <<launch, dirs, tree, exitCode, directories, gi,
                   successCount, totalCount, calls, scratch, outFiles, cp>>
    /\ UNCHANGED sourceFiles
    /\ UNCHANGED subVars

\* run, up to the loop: a source directory that does not exist and an empty
\* scan make run return; mkdirSync of the output directory may throw, which
\* either main turns into exit code 1
RunStart ==
    /\ pc = "run"
    /\ LET src == config["sourceDir"]
           out == config["outputDir"]
           make == ~existsSync(dirs, out)
           found == scanDirectories(config, src, dirs[src], tree)
       IN  IF ~existsSync(dirs, src)
           THEN Exit(0) /\ UNCHANGED <<dirs, directories, gi, totalCount>>
           ELSE IF make /\ MkdirThrows(dirs, out)
           THEN Exit(1) /\ UNCHANGED <<dirs, directories, gi, totalCount>>
           ELSE /\ dirs' = IF make THEN Mkdir(dirs, out) ELSE dirs
                /\ directories' = found
                /\ IF found = <<>>
                   THEN Exit(0) /\ UNCHANGED <<gi, totalCount>>
                   ELSE /\ totalCount' = Len(found)
                        /\ gi' = 1
                        /\ pc' = "loop"
                        /\ UNCHANGED exitCode
    /\ scratch' = ScratchOf(scratch, dirs')
    /\ UNCHANGED <<launch, tree, config, successCount, calls, outFiles, cp>>
    /\ sourceFiles' = SourcePaths(directories')
    /\ UNCHANGED subVars

\* Where run stands after a createPDF promise rejected: the catch of the
\* loop body logs the error and the loop goes on with the next group.
AfterGroupFailure(g) == [pc |-> "loop", gi |-> g + 1, exitCode |-> -1]

\* a loop body that calls createPDF without awaiting it
CreatePDFNotAwaited == "loop"

\* run's loop body awaits the promise of createPDF: run stands in the call
\* until the promise settles
AwaitCreatePDF == "createPDF"

\* run's loop body up to the first await inside createPDF: the call is made,
\* the scratch directory is created if absent (mkdirSync may throw, which
\* rejects the promise), and compressImages starts
RunNextGroup ==
    /\ pc = "loop"
    /\ gi <= Len(directories)
    /\ \E mkdirOk \in BOOLEAN, day \in Days :
         LET folder == directories[gi]
             out    == OutputPath(config, folder.key, day)
             thrown == ~scratch.exists /\ ~mkdirOk
             after  == AfterGroupFailure(gi)
         IN  /\ (scratch.exists => mkdirOk)
             /\ day >= IF calls = <<>> THEN 0
                       ELSE calls[Len(calls)].outputPath.day
             /\ (calls = <<>> => day = 0)
             /\ calls' = Append(calls,
                          [folder |-> folder.key, outputPath |-> out,
                           result |-> IF thrown THEN "rejected" ELSE "pending"])
             /\ IF thrown
                THEN /\ pc' = after.pc
                     /\ gi' = after.gi
                     /\ exitCode' = after.exitCode
                     /\ cp' = CpIdle
                     /\ UNCHANGED <<scratch, dirs>>
                ELSE /\ pc' = AwaitCreatePDF
                     /\ scratch' = [scratch EXCEPT !.exists = TRUE]
                     /\ dirs' = DirsOf(dirs, scratch')
                     /\ cp' = [phase |-> "compress",
                               images |-> folder.info.images,
                               compressed |-> <<>>,
                               outcomes |-> <<>>,
                               docOps |-> <<>>,
                               outputPath |-> out,
                               stream |-> "none",
                               opened |-> FALSE]
                     /\ UNCHANGED <<gi, exitCode>>
    /\ UNCHANGED <<launch, tree, config, directories, successCount,
                   totalCount, outFiles>>
    /\ UNCHANGED sourceFiles
    /\ UNCHANGED subVars

\* a createPDF that goes on once the first compressImage has settled
PhaseAfterFirstCompress(done, total) == "compose"

\* createPDF awaits compressImages, whose loop awaits compressImage for every
\* image of the group before it returns
PhaseAfterCompress(done, total) ==
    IF done = total THEN "compose" ELSE "compress"

\* compressImages with preCompressImages on: one awaited compressImage.
\* sharp either writes the scratch file or fails; the original path is used
\* when sharp failed and when statSync of the written file threw.
CompressNext ==
    /\ pc = "createPDF"
    /\ cp.phase = "compress"
    /\ config.preCompressImages
    /\ \E outcome \in CompressOutcomes :
         LET image  == cp.images[Len(cp.compressed) + 1]
             px     == ImagePixels(image.name)
             probed == IF outcome.probe THEN px ELSE <<800, 600>>
         IN  /\ scratch' =
                  IF outcome.sharp
                  THEN [scratch EXCEPT !.files =
                          WriteFile(@, [name |-> CompressedName(image.name),
                                        kind |-> "file",
                                        pixels |->
                                          SharpOutputPixels(
                                            px, ImageOrientation(image.name),
                                            probed, config),
                                        from |-> image.fullPath])]
                  ELSE scratch
             /\ sourceFiles' = IF outcome.sharp
                               THEN sourceFiles \ {CompressOutputPath(image)}
                               ELSE sourceFiles
             /\ cp' = [cp EXCEPT
                         !.compressed =
                            Append(@, CompressedImage(image,
                                         CompressSucceeded(outcome))),
                         !.phase = PhaseAfterCompress(Len(cp.compressed) + 1,
                                                      Len(cp.images))]
    /\ UNCHANGED <<launch, dirs, tree, config, pc, exitCode, directories, gi,
                   successCount, totalCount, calls, outFiles>>
    /\ UNCHANGED subVars

\* compressImages with preCompressImages off
CompressSkip ==
    /\ pc = "createPDF"
    /\ cp.phase = "compress"
    /\ ~config.preCompressImages
    /\ cp' = [cp EXCEPT !.compressed = PassThrough(cp.images),
                        !.phase = "compose"]
    /\ UNCHANGED <<launch, dirs, tree, config, pc, exitCode, directories, gi,
                   successCount, totalCount, calls, scratch, outFiles>>
    /\ UNCHANGED sourceFiles
    /\ UNCHANGED subVars

\* createPDF after compressImages: the document and the output stream are
\* created, every image is composed, the document is ended.
\* createWriteStream only starts to open the output file: when the open
\* succeeds the file is on disk, when it fails no file is made and the
\* stream will emit error.
ComposePages ==
    /\ pc = "createPDF"
    /\ cp.phase = "compose"
    /\ \E outcomes \in [1..Len(cp.compressed) -> Outcomes], opened \in BOOLEAN :
         /\ \A i \in DOMAIN outcomes :
              outcomes[i].page \in AddPageOutcomes(config)
         /\ cp' = [cp EXCEPT
                     !.outcomes = outcomes,
                     !.docOps = ComposeOps(config, cp.compressed,
                                           scratch.files, outcomes),
                     !.phase = "stream",
                     !.stream = "open",
                     !.opened = opened]
         /\ outFiles' = IF opened THEN outFiles \cup {cp.outputPath}
                        ELSE outFiles
    /\ UNCHANGED <<launch, dirs, tree, config, pc, exitCode, directories, gi,
                   successCount, totalCount, calls, scratch>>
    /\ UNCHANGED sourceFiles
    /\ UNCHANGED subVars

\* the stream's finish event, of a stream whose file was opened: the
\* cleanup, then statSync of the output path, which is outside every try:
\* when it throws (the document is gone, for
\* one because the cleanup unlinked it) the exception is uncaught and the
\* process ends with code 1, the promise never settled.  Otherwise the
\* promise resolves and run counts the success.
StreamFinish ==
    /\ pc = "createPDF"
    /\ cp.phase = "stream"
    /\ cp.opened
    /\ \E unlinked \in CleanupChoices(scratch, outFiles), statOk \in BOOLEAN :
         /\ (cp.outputPath \in unlinked.docs => ~statOk)
         /\ scratch' = CleanupScratch(config, scratch, unlinked.files)
         /\ dirs' = DirsOf(dirs, scratch')
         /\ outFiles' = outFiles \ unlinked.docs
         /\ sourceFiles' =
              sourceFiles \ CleanupTargets(unlinked.files, cp.compressed)
         /\ IF statOk
            THEN /\ calls' = [calls EXCEPT ![Len(calls)].result = "resolved"]
                 /\ successCount' = successCount + 1
                 /\ gi' = gi + 1
                 /\ pc' = "loop"
                 /\ cp' = [cp EXCEPT !.phase = "settled", !.stream = "finished"]
                 /\ UNCHANGED exitCode
            ELSE /\ Exit(1)
                 /\ cp' = [cp EXCEPT !.phase = "crashed", !.stream = "finished"]
                 /\ UNCHANGED <<calls, successCount, gi>>
    /\ UNCHANGED <<launch, tree, config, directories, totalCount>>
    /\ UNCHANGED subVars

\* the stream's error event: reject; run's catch logs it
StreamError ==
    /\ pc = "createPDF"
    /\ cp.phase = "stream"
    /\ LET after == AfterGroupFailure(gi)
       IN  /\ pc' = after.pc
           /\ gi' = after.gi
           /\ exitCode' = after.exitCode
    /\ calls' = [calls EXCEPT ![Len(calls)].result = "rejected"]
    /\ cp' = [cp EXCEPT !.phase = "settled", !.stream = "errored"]
    /\ UNCHANGED <<launch, dirs, tree, config, directories, successCount,
                   totalCount, scratch, outFiles>>
    /\ UNCHANGED sourceFiles
    /\ UNCHANGED subVars

\* run after the loop, and the end of main
RunFinish ==
    /\ pc = "loop"
    /\ gi > Len(directories)
    /\ Exit(0)
    /\ UNCHANGED <<launch, dirs, tree, config, directories, gi, successCount,
                   totalCount, calls, scratch, outFiles, cp>>
    /\ UNCHANGED sourceFiles
    /\ UNCHANGED subVars

Next ==
    \/ CliLoad
    \/ CliValidate
    \/ IndexMain
    \/ RunStart
    \/ RunNextGroup
    \/ CompressNext
    \/ CompressSkip
    \/ ComposePages
    \/ StreamFinish
    \/ StreamError
    \/ RunFinish

Spec == Init /\ [][Next]_vars

----------------------------------------------------------------------------
(* Properties of createPDF and run.                                        *)

\* the last createPDF call resolved
Resolved == cp.phase = "settled" /\ cp.stream = "finished"

IsAddPage(o) == o.op = "addPage"

\* the instructions the document received for image i
OpsOf(i) ==
    LET Mine(o) == o.img = i
    IN  SelectSeq(cp.docOps, Mine)

OpNames(ops) == [k \in 1..Len(ops) |-> ops[k].op]

\* C1: when createPDF resolves for a group of N images the document received
\* exactly N addPage calls, the i-th for the i-th image of the group; an
\* image whose probe failed was laid out as 800x600, and an image whose
\* placement threw has its page with the background only.
C1_OnePagePerImage ==
    Resolved =>
        LET adds == SelectSeq(cp.docOps, IsAddPage)
        IN  /\ Len(adds) = Len(cp.images)
            /\ \A i \in 1..Len(adds) : adds[i].img = i
            /\ \A i \in 1..Len(cp.images) :
                 /\ ~cp.outcomes[i].probe =>
                      \A k \in 1..Len(OpsOf(i)) :
                        OpsOf(i)[k].pixels = <<800, 600>>
                 /\ ~cp.outcomes[i].place =>
                      OpNames(OpsOf(i)) = <<"addPage", "rect">>

\* C2: after createPDF resolved, the scratch directory holds no file and
\* does not exist, whatever each image's compression did and whether or not
\* pre-compression is on.
C2_ScratchGoneAfterResolve ==
    Resolved => ~scratch.exists /\ scratch.files = {}

\* C5: with a page size that is not a key of the page-format table no
\* createPDF call resolves and run counts no group as a success.
C5_UnknownPageFormatFatal ==
    (config # Empty /\ config.pageSize \notin DOMAIN pageFormats) =>
        /\ \A k \in 1..Len(calls) : calls[k].result # "resolved"
        /\ successCount = 0

Terminated == pc \in {"done", "exited"}

NumResolved == Cardinality({k \in 1..Len(calls) : calls[k].result = "resolved"})

\* C6: createPDF is invoked once for every discovered group, in order, a
\* failed group never keeps run from the later ones, and successCount is the
\* number of resolved calls, between 0 and totalCount = number of groups.
C6_EveryGroupAttempted ==
    /\ Len(calls) <= Len(directories)
    /\ \A k \in 1..Len(calls) : calls[k].folder = directories[k].key
    /\ successCount = NumResolved
    /\ 0 <= successCount
    /\ directories # <<>> =>
         /\ totalCount = Len(directories)
         /\ successCount <= totalCount
    /\ (Terminated /\ directories # <<>>) =>
         /\ pc = "done"
         /\ Len(calls) = Len(directories)
         /\ \A k \in 1..Len(calls) : calls[k].result \in {"resolved", "rejected"}

\* the configuration the run works with names no usable source directory,
\* or an output directory that cannot be created.  The directories are read
\* as they were when the run started: the only directory a run removes is
\* the scratch directory, in the cleanup of a createPDF call, and a call is
\* made only for a source directory that was there.
ConfigurationError ==
    /\ config # Empty
    /\ LET src == config["sourceDir"]
           out == config["outputDir"]
       IN  \/ src = ""
           \/ dirs[src] # "dir" /\ ~(src = TempDir /\ calls # <<>>)
           \/ out = ""
           \/ dirs[out] = "uncreatable"

\* C8: a run with a configuration error ends with a non-zero exit code,
\* without a createPDF call and without an output file opened.
C8_ConfigurationErrorFatal ==
    (Terminated /\ ConfigurationError) =>
        /\ exitCode # 0
        /\ calls = <<>>
        /\ outFiles = {}

----------------------------------------------------------------------------
(* Properties of calculateOptimalLayout.                                   *)

\* 2^-51: covers the three roundings between the page size and a final size
Eps == [sg |-> 1, m |-> <<1>>, e |-> -51]

OnePlusEps == DAdd(DFromInt(1), Eps)
OneMinusEps == DSub(DFromInt(1), Eps)

\* |a - b| <= 2^-51 * |b|
Within(a, b) == DLe(DAbs(DSub(a, b)), DMul(Eps, DAbs(b)))

\* |a - b| <= 2^-51 * |scale|
Near(a, b, scale) == DLe(DAbs(DSub(a, b)), DMul(Eps, DAbs(scale)))

DHalf(x) == IF x.m = <<>> THEN x ELSE [x EXCEPT !.e = x.e - 1]

LayReturned(mode) ==
    /\ lay.phase = "returned"
    /\ lay.cfg.fillMode = mode
    /\ lay.cfg.pageSize \in DOMAIN pageFormats

LayPage == pageFormats[lay.cfg.pageSize]

\* the usable area for a uniform margin mg, in exact arithmetic
UsableWidth(mg) == DSub(LayPage.width, DFromInt(2 * mg))
UsableHeight(mg) == DSub(LayPage.height, DFromInt(2 * mg))

\* margin + (usable - final) / 2, in exact arithmetic
Centred(mg, usable, final) == DAdd(DFromInt(mg), DHalf(DSub(usable, final)))

\* C3 as stated: in fit mode the rectangle has exactly the image's aspect
\* ratio, is no larger than the usable area, touches it in one dimension, and
\* sits exactly centred, inside the usable area.
C3_FitExact ==
    LayReturned("fit") =>
        LET r  == lay.result
            mg == MinimumMarginOf(lay.cfg)
            uw == UsableWidth(mg)
            uh == UsableHeight(mg)
        IN  /\ DEq(DMul(r.width, DFromInt(lay.imgHeight)),
                   DMul(r.height, DFromInt(lay.imgWidth)))
            /\ DLe(r.width, uw) /\ DLe(r.height, uh)
            /\ (DEq(r.width, uw) \/ DEq(r.height, uh))
            /\ DEq(r.x, Centred(mg, uw, r.width))
            /\ DEq(r.y, Centred(mg, uh, r.height))
            /\ DLe(DFromInt(mg), r.x) /\ DLe(DFromInt(mg), r.y)
            /\ DLe(DAdd(r.x, r.width), DAdd(DFromInt(mg), uw))
            /\ DLe(DAdd(r.y, r.height), DAdd(DFromInt(mg), uh))

\* C3 (amended): in fit mode, for every registered page format, the same
\* holds up to binary64 rounding: the aspect ratio, the upper bounds and the
\* touched dimension within a relative 2^-51, the centring and the
\* containment within 2^-51 of the page dimension.
C3_FitWithinRounding ==
    LayReturned("fit") =>
        LET r  == lay.result
            mg == MinimumMarginOf(lay.cfg)
            uw == UsableWidth(mg)
            uh == UsableHeight(mg)
            pw == LayPage.width
            ph == LayPage.height
        IN  /\ Within(DMul(r.width, DFromInt(lay.imgHeight)),
                      DMul(r.height, DFromInt(lay.imgWidth)))
            /\ DLe(r.width, DMul(uw, OnePlusEps))
            /\ DLe(r.height, DMul(uh, OnePlusEps))
            /\ (Within(r.width, uw) \/ Within(r.height, uh))
            /\ Near(r.x, Centred(mg, uw, r.width), pw)
            /\ Near(r.y, Centred(mg, uh, r.height), ph)
            /\ DLe(DSub(DFromInt(mg), DMul(Eps, pw)), r.x)
            /\ DLe(DSub(DFromInt(mg), DMul(Eps, ph)), r.y)
            /\ DLe(DAdd(r.x, r.width),
                   DAdd(DAdd(DFromInt(mg), uw), DMul(Eps, pw)))
            /\ DLe(DAdd(r.y, r.height),
                   DAdd(DAdd(DFromInt(mg), uh), DMul(Eps, ph)))

\* a fit layout on A4 without margin whose width is scaled down and whose
\* height came out one rounding step above the usable height, so that y is
\* negative
C3_Witness ==
    /\ LayReturned("fit")
    /\ lay.cfg.pageSize = "A4"
    /\ MinimumMarginOf(lay.cfg) = 0
    /\ DLt(lay.result.width, UsableWidth(0))
    /\ DLt(UsableHeight(0), lay.result.height)
    /\ DLt(lay.result.y, DZero)

\* C4 as stated: in crop mode the rectangle covers the usable area, has
\* exactly the image's aspect ratio and is centred with x <= margin and
\* y <= margin.
C4_CropExact ==
    LayReturned("crop") =>
        LET r  == lay.result
            mg == MinimumMarginOf(lay.cfg)
            uw == UsableWidth(mg)
            uh == UsableHeight(mg)
        IN  /\ DLe(uw, r.width) /\ DLe(uh, r.height)
            /\ DEq(DMul(r.width, DFromInt(lay.imgHeight)),
                   DMul(r.height, DFromInt(lay.imgWidth)))
            /\ DEq(r.x, Centred(mg, uw, r.width))
            /\ DEq(r.y, Centred(mg, uh, r.height))
            /\ DLe(r.x, DFromInt(mg)) /\ DLe(r.y, DFromInt(mg))

\* C4 (amended): in crop mode, for every registered page format, the same
\* holds up to binary64 rounding: width and height are at least the usable
\* dimension less a relative 2^-51, the aspect ratio matches within a
\* relative 2^-51, the offsets are the centring offsets within 2^-51 of
\* (page dimension + rectangle dimension), and they are at most the margin
\* plus 2^-51 of the page dimension.
C4_CropWithinRounding ==
    LayReturned("crop") =>
        LET r  == lay.result
            mg == MinimumMarginOf(lay.cfg)
            uw == UsableWidth(mg)
            uh == UsableHeight(mg)
            pw == LayPage.width
            ph == LayPage.height
        IN  /\ DLe(DMul(uw, OneMinusEps), r.width)
            /\ DLe(DMul(uh, OneMinusEps), r.height)
            /\ Within(DMul(r.width, DFromInt(lay.imgHeight)),
                      DMul(r.height, DFromInt(lay.imgWidth)))
            /\ Near(r.x, Centred(mg, uw, r.width), DAdd(pw, r.width))
            /\ Near(r.y, Centred(mg, uh, r.height), DAdd(ph, r.height))
            /\ DLe(r.x, DAdd(DFromInt(mg), DMul(Eps, pw)))
            /\ DLe(r.y, DAdd(DFromInt(mg), DMul(Eps, ph)))

\* a crop layout of an 800x600 image on A4: the height fills the usable
\* area and the rectangle overflows to the left (x is negative)
C4_Witness ==
    /\ LayReturned("crop")
    /\ lay.cfg.pageSize = "A4"
    /\ lay.imgWidth = 800 /\ lay.imgHeight = 600
    /\ MinimumMarginOf(lay.cfg) = 0
    /\ Within(lay.result.height, LayPage.height)
    /\ DLt(lay.result.x, DZero)

\* C10: under fit, stretch and crop the configuration's scalar margin is the
\* margin of the layout on all four sides: the usable area is the page less
\* twice config.margin and the offsets start from config.margin (for the
\* high-quality preset: margin 10, usable area = page minus 20 per axis).
C10_ScalarMarginApplied ==
    (/\ lay.phase = "returned"
     /\ lay.cfg.fillMode \in {"fit", "stretch", "crop"}
     /\ lay.cfg.pageSize \in DOMAIN pageFormats) =>
        LET r  == lay.result
            mg == lay.cfg.margin
            uw == UsableWidth(mg)
            uh == UsableHeight(mg)
            pw == LayPage.width
            ph == LayPage.height
        IN  CASE lay.cfg.fillMode = "stretch" ->
                    /\ Within(r.width, uw) /\ Within(r.height, uh)
                    /\ DEq(r.x, DFromInt(mg)) /\ DEq(r.y, DFromInt(mg))
              [] lay.cfg.fillMode = "fit" ->
                    /\ DLe(r.width, DMul(uw, OnePlusEps))
                    /\ DLe(r.height, DMul(uh, OnePlusEps))
                    /\ DLe(DSub(DFromInt(mg), DMul(Eps, pw)), r.x)
                    /\ DLe(DSub(DFromInt(mg), DMul(Eps, ph)), r.y)
              [] lay.cfg.fillMode = "crop" ->
                    /\ DLe(DMul(uw, OneMinusEps), r.width)
                    /\ DLe(DMul(uh, OneMinusEps), r.height)
                    /\ DLe(r.x, DAdd(DFromInt(mg), DMul(Eps, pw)))
                    /\ DLe(r.y, DAdd(DFromInt(mg), DMul(Eps, ph)))

----------------------------------------------------------------------------
(* Properties of getImageFiles.                                            *)

SupportedNames(files) ==
    {files[i] : i \in {k \in 1..Len(files) :
                         toLowerCase(extname(files[k])) \in FormatsOf(defaultConfig)}}

\* ordered by the first embedded integer of the name (0 when the name has
\* none), names with equal first integer by localeCompare
SortedByFirstInt(r) ==
    \A i, j \in 1..Len(r) :
        i < j =>
          /\ FirstInt(r[i].name) <= FirstInt(r[j].name)
          /\ (FirstInt(r[i].name) = FirstInt(r[j].name)
                => localeCompare(r[i].name, r[j].name) <= 0)

\* the result holds each of the names once and nothing else
PermutationOf(r, names) ==
    /\ {r[i].name : i \in 1..Len(r)} = names
    /\ Len(r) = Cardinality(names)

\* C9 as stated: the result is ordered by the first embedded integer of the
\* name, names with equal first integer by localeCompare, and it is a
\* permutation of the files of the listing whose extension is supported.
C9_SortedByFirstInteger ==
    srt.phase = "returned" =>
        /\ SortedByFirstInt(srt.result)
        /\ PermutationOf(srt.result, SupportedNames(srt.listing.files))

----------------------------------------------------------------------------
(* Properties of the configuration pipeline.                               *)

\* the value precedence preset -> environment -> file -> command line gives
\* a directory key
ByPrecedence(key, cliValue, envValue, file, preset) ==
    IF cliValue # "" THEN cliValue
    ELSE IF key \in DOMAIN file THEN file[key]
    ELSE IF envValue # "" THEN envValue
    ELSE preset[key]

\* C7: sourceDir and outputDir of the final configuration are the
\* command-line flag's if given, else the config file's if it sets the key,
\* else the environment variable's if set, else the preset's; every other
\* key is the config file's if it sets it, else the preset's; and the preset
\* objects are unchanged by the merge.
C7_MergePrecedence ==
    mrg.phase = "merged" =>
        LET preset == getPresetConfig(PresetNameOf(mrg.cli))
            final  == mrg.finalConfig
        IN  /\ final["sourceDir"] =
                 ByPrecedence("sourceDir", mrg.cli.sourceDir,
                              mrg.env.IMG_TO_PDF_SOURCE_DIR, mrg.file, preset)
            /\ final["outputDir"] =
                 ByPrecedence("outputDir", mrg.cli.outputDir,
                              mrg.env.IMG_TO_PDF_OUTPUT_DIR, mrg.file, preset)
            /\ DOMAIN final = DOMAIN preset \cup DOMAIN mrg.file
            /\ \A k \in DOMAIN final \ {"sourceDir", "outputDir"} :
                 final[k] = IF k \in DOMAIN mrg.file THEN mrg.file[k]
                            ELSE preset[k]
            /\ mrg.presets = ThePresets

\* a merge where the environment and the config file both set sourceDir and
\* the command line sets neither directory: the file's value won, and the
\* environment's outputDir replaced the preset's
C7_Witness ==
    /\ mrg.phase = "merged"
    /\ mrg.cli.sourceDir = "" /\ mrg.cli.outputDir = ""
    /\ mrg.env.IMG_TO_PDF_SOURCE_DIR = "env-src"
    /\ mrg.env.IMG_TO_PDF_OUTPUT_DIR = "env-out"
    /\ mrg.file = [sourceDir |-> "file-src"]
    /\ mrg.finalConfig["sourceDir"] = "file-src"
    /\ mrg.finalConfig["outputDir"] = "env-out"

----------------------------------------------------------------------------
(* Properties of the files a run touches.                                  *)

\* C11: a run never alters or deletes a source image: every image the scan
\* found is on disk as found, whatever compressImage wrote and the cleanup
\* unlinked, also when an image's compression failed and its working path
\* is the original.
C11_SourceImagesUntouched == sourceFiles = SourcePaths(directories)

----------------------------------------------------------------------------
(* Properties of the document and of the order of createPDF's steps.       *)

\* the background rectangle of the configured page format
FullPage ==
    [x |-> DZero, y |-> DZero,
     w |-> pageFormats[config.pageSize].width,
     h |-> pageFormats[config.pageSize].height]

\* C12: for every image of a createPDF call the document receives, in image
\* order, exactly one addPage, then exactly one background fill, then at most
\* one image placement; the background rectangle is (0, 0, page width, page
\* height) of the page format, whatever the fill mode and the margins.
C12_PageInstructions ==
    cp.phase \in {"stream", "settled"} =>
        /\ \A k \in 1..(Len(cp.docOps) - 1) :
             cp.docOps[k].img <= cp.docOps[k + 1].img
        /\ \A i \in 1..Len(cp.images) :
             /\ OpNames(OpsOf(i)) \in {<<"addPage", "rect">>,
                                       <<"addPage", "rect", "image">>}
             /\ config.pageSize \in DOMAIN pageFormats
             /\ OpsOf(i)[2].rect = FullPage

\* where a createPDF call stands, read from the state
C13_Stages ==
    /\ cp.phase = "compress" =>
         /\ scratch.exists
         /\ cp.stream = "none"
         /\ cp.docOps = <<>>
         /\ Len(cp.compressed) < Len(cp.images)
    /\ cp.phase = "compose" =>
         /\ scratch.exists
         /\ cp.stream = "none"
         /\ cp.docOps = <<>>
         /\ Len(cp.compressed) = Len(cp.images)
    /\ cp.phase = "stream" =>
         /\ scratch.exists
         /\ cp.stream = "open"
         /\ Len(cp.compressed) = Len(cp.images)
         /\ cp.docOps = ComposeOps(config, cp.compressed, scratch.files,
                                   cp.outcomes)
         /\ cp.opened => cp.outputPath \in outFiles
         /\ calls[Len(calls)].result = "pending"
    /\ (pc = "createPDF") = (cp.phase \in {"compress", "compose", "stream"})
    /\ (pc = "createPDF") => calls[Len(calls)].result = "pending"

\* what one step of a createPDF call may follow
C13_Steps ==
    /\ (cp.phase = "compose" /\ cp'.phase = "stream") =>
         /\ cp'.stream = "open"
         /\ cp'.compressed = cp.compressed
         /\ scratch' = scratch
    /\ (scratch.exists /\ ~scratch'.exists) =>
         /\ cp.phase = "stream"
         /\ cp'.stream = "finished"
    /\ (Len(calls') = Len(calls) /\ calls' # calls) =>
         /\ cp.phase = "stream"
         /\ calls[Len(calls)].result = "pending"
         /\ \/ /\ calls'[Len(calls)].result = "resolved"
               /\ cp'.stream = "finished"
               /\ \E u \in CleanupChoices(scratch, outFiles) :
                    scratch' = CleanupScratch(config, scratch, u.files)
            \/ /\ calls'[Len(calls)].result = "rejected"
               /\ cp'.stream = "errored"
    /\ Len(calls') > Len(calls) =>
         /\ calls'[Len(calls')].result # "resolved"
         /\ calls'[Len(calls')].result = "pending" =>
              /\ scratch'.exists
              /\ cp'.phase = "compress"
              /\ cp'.compressed = <<>>

\* C13: the steps of one createPDF call come in a fixed order: the scratch
\* directory exists, every image of the group is preprocessed, the output
\* stream is opened and the pages are composed and the document ended, the
\* cleanup of the scratch directory runs; the call resolves only at the
\* stream's finish event, together with that cleanup, never while the
\* stream is still open.
C13_StepOrder == [](C13_Stages) /\ [][C13_Steps]_vars

\* a call over two images, both preprocessed before the stream was opened,
\* resolved at the finish event with two pages composed
C13_Witness ==
    /\ Resolved
    /\ calls[Len(calls)].result = "resolved"
    /\ config.preCompressImages
    /\ Len(cp.images) = 2
    /\ \A i \in 1..2 : cp.compressed[i].compressed
    /\ Len(SelectSeq(cp.docOps, IsAddPage)) = 2

Settled(k) == calls[k].result # "pending"

\* one createPDF call at a time, in group order
C14_OneCall ==
    /\ \A k \in 1..(Len(calls) - 1) : Settled(k)
    /\ \A k \in 1..Len(calls) : calls[k].folder = directories[k].key
    /\ cp.phase \in {"compress", "compose", "stream"} =>
         /\ ~Settled(Len(calls))
         /\ cp.images = directories[Len(calls)].info.images
         /\ cp.outputPath = calls[Len(calls)].outputPath
         /\ Len(cp.compressed) <= Len(cp.images)
         /\ \A i \in 1..Len(cp.compressed) :
              cp.compressed[i].name = cp.images[i].name
    /\ cp.phase \in {"idle", "settled"} =>
         \A k \in 1..Len(calls) : Settled(k)

\* a call starts only when every earlier call has settled, and the
\* compressions of a call settle one at a time
C14_OneStep ==
    /\ Len(calls') > Len(calls) =>
         /\ Len(calls') = Len(calls) + 1
         /\ \A k \in 1..Len(calls) : Settled(k)
         /\ cp.phase \in {"idle", "settled"}
    /\ (cp.phase = "compress" /\ config.preCompressImages) =>
         \/ cp'.compressed = cp.compressed
         \/ /\ Len(cp'.compressed) = Len(cp.compressed) + 1
            /\ SubSeq(cp'.compressed, 1, Len(cp.compressed)) = cp.compressed
    /\ (cp.phase = "stream" /\ cp'.phase = "compress") => FALSE

\* C14: processing is strictly sequential: at most one group is inside
\* createPDF, the next call is made only after the previous promise settled,
\* so at most one output stream is open and one group uses the scratch
\* directory; within a group the images are compressed one at a time, in
\* group order.
C14_StrictlySequential == [](C14_OneCall) /\ [][C14_OneStep]_vars

\* the second group's stream is open after the first group's call resolved
C14_Witness ==
    /\ Len(calls) = 2
    /\ calls[1].result = "resolved"
    /\ calls[2].result = "pending"
    /\ cp.phase = "stream"
    /\ cp.stream = "open"
    /\ calls[1].folder # calls[2].folder

\* C15: whenever a createPDF call has settled, by resolving or by rejecting,
\* the scratch directory has been emptied and removed, so that no scratch
\* file of a failed group is left for the next group.
C15_ScratchGoneAfterSettle ==
    (calls # <<>> /\ \A k \in 1..Len(calls) : Settled(k)) =>
        /\ ~scratch.exists
        /\ scratch.files = {}

\* C16: after preprocessing, two distinct images of a group never have the
\* same working path, and the file at an image's working path holds that
\* image (also for a.png and a.jpg, which differ only in the extension).
C16_DistinctWorkingPaths ==
    cp.phase \in {"compose", "stream"} =>
        /\ \A i, j \in DOMAIN cp.compressed :
             i # j => cp.compressed[i].fullPath # cp.compressed[j].fullPath
        /\ \A i \in DOMAIN cp.compressed :
             cp.compressed[i].fullPath # cp.images[i].fullPath =>
               \E f \in scratch.files :
                 /\ <<TempDir, f.name>> = cp.compressed[i].fullPath
                 /\ f.from = cp.images[i].fullPath

\* the directories of the source tree that hold at least one supported image
DirsWithImages ==
    LET src == config["sourceDir"]
        Has(dir, files) ==
            Len(getImageFiles(config, dir,
                  [ok |-> TRUE, files |-> files, broken |-> {}])) > 0
    IN  {<<src, tree.items[k].name>> :
           k \in {n \in DOMAIN tree.items :
                    /\ tree.items[n].kind = "dir"
                    /\ Has(<<src, tree.items[n].name>>,
                           tree.items[n].listing.files)}}
        \cup (IF Has(<<src>>, [k \in DOMAIN tree.items |-> tree.items[k].name])
              THEN {<<src>>} ELSE {})

\* statSync succeeds for every entry of the source tree
ScanComplete ==
    \A k \in DOMAIN tree.items :
        /\ tree.items[k].kind # "broken"
        /\ tree.items[k].listing.broken = {}

\* C17: the groups of a run are source directories that hold images, one
\* group for each of them when the whole tree can be read, the root among
\* them also beside a sub-directory named root or _root, and no two
\* createPDF calls of the run have the same output path.
C17_DistinctGroupsAndOutputs ==
    directories # <<>> =>
        LET paths == {directories[g].info.path : g \in DOMAIN directories}
        IN  /\ paths \subseteq DirsWithImages
            /\ ScanComplete => paths = DirsWithImages
            /\ \A g, h \in DOMAIN directories :
                 g # h => directories[g].info.path # directories[h].info.path
            /\ \A j, k \in DOMAIN calls :
                 j # k => calls[j].outputPath # calls[k].outputPath

====
